---- MODULE Spec2Model ----
(***************************************************************************)
(* Context-Packer: the filtering-and-packing pipeline.                     *)
(*                                                                         *)
(*   - the chunk packer of components/OutputViewer.tsx (the `chunks`       *)
(*     useMemo callback and generateContent), modelled statement by        *)
(*     statement as a state machine over the callback's local variables;   *)
(*   - the glob matcher of utils/patternMatcher.ts.                        *)
(*                                                                         *)
(* Strings are sequences of character codes (content) or of one-character  *)
(* strings (paths and patterns).  Objects that the code shares by          *)
(* reference (the parts pushed to fileParts and to currentChunkFiles) live *)
(* in a heap and the arrays hold indices into it.                          *)
(***************************************************************************)
EXTENDS Integers, Sequences, FiniteSets, TLC

\* ------------------------------------------------------------------------
\* Bounds of the model
\* ------------------------------------------------------------------------

\* Largest number of files in the file set handed to the packer.
MaxFiles == 2

\* Largest value of partCounter for which the packing loop is followed.
MaxParts == 6

\* How many times the callback is invoked on one set of inputs.
MaxRuns == 2

\* ------------------------------------------------------------------------
\* Program constants
\* ------------------------------------------------------------------------

PER_FILE_OVERHEAD == 200

CHUNK_OVERHEAD == 100

\* `if (maxContentInCurrent < 500)`
MIN_USABLE_SPACE == 500

\* `Math.min(1000, maxChars * 0.2)`
SEARCH_WINDOW_MAX == 1000

\* `maxTokens * 4`
CHARS_PER_TOKEN == 4

\* '\n'
NL == 10

\* ------------------------------------------------------------------------
\* JavaScript string primitives
\* ------------------------------------------------------------------------

Min(a, b) == IF a <= b THEN a ELSE b

Max(a, b) == IF a >= b THEN a ELSE b

\* A relative index of String.prototype.slice: negative counts from the end.
SliceIndex(x, len) == IF x < 0 THEN Max(len + x, 0) ELSE Min(x, len)

\* s.slice(start, end), 0-based, end exclusive.
Slice(s, start, end) ==
  LET from == SliceIndex(start, Len(s))
      to   == SliceIndex(end, Len(s))
  IN  IF from >= to THEN <<>> ELSE SubSeq(s, from + 1, to)

\* s.slice(start)
SliceFrom(s, start) == Slice(s, start, Len(s))

\* text.lastIndexOf(ch, fromIndex) for a one-character search string: the
\* largest 0-based index k <= clamp(fromIndex, 0, length - 1) holding ch, or -1.
LastIndexOf(text, ch, fromIndex) ==
  LET start == Min(Max(fromIndex, 0), Len(text) - 1)
      hits  == {k \in 0..start : text[k + 1] = ch}
  IN  IF hits = {} THEN -1 ELSE CHOOSE k \in hits : \A j \in hits : j <= k

\* ------------------------------------------------------------------------
\* Inputs
\* ------------------------------------------------------------------------

\* A text of the given length with '\n' at the given 0-based indices.
MkText(len, newlines) ==
  [i \in 1..len |-> IF (i - 1) \in newlines THEN NL ELSE 97 + (i % 26)]

EmptyText == <<>>

ShortText == MkText(4, {})

LinesText == MkText(10, {0, 4})

MidText == MkText(250, {90})

LongText == MkText(1300, {500})

\* Text holding the end of a CDATA section, a line of three backquotes, a
\* double quote and a backslash.
DelimiterText == <<93, 93, 62, NL, 96, 96, 96, NL, 34, 92>>

Contents == {EmptyText, ShortText, LinesText, MidText, LongText, DelimiterText}

\* The budgets typed into the number input: 0 (field cleared), 75 and 76
\* (limitChars at and just above the 300 characters of overhead), 100, 251.
Budgets == {0, 75, 76, 100, 251}

Formats == {"xml", "markdown", "json"}

\* A text that fills a chunk of a thousand tokens to within 500 characters.
FillText == MkText(3300, {})

\* A text longer than a chunk of a thousand tokens, with one newline near its
\* start and one inside the search window before the limit.
HugeText == MkText(4000, {100, 2970})

\* Texts for budgets of a few hundred tokens and more.
WideContents == {ShortText, MidText, LongText, FillText, HugeText}

\* Budgets at and above 200 tokens.
WideBudgets == {200, 1000}

\* Paths in localeCompare order, as processFiles returns them.
PathPool ==
  << [path |-> "a.txt",    name |-> "a.txt", extension |-> "txt"],
     [path |-> "src/b.ts", name |-> "b.ts",  extension |-> "ts"],
     [path |-> "src/c.md", name |-> "c.md",  extension |-> "md"],
     [path |-> "src/d",    name |-> "d",     extension |-> "d"] >>

\* A FileEntry (types.ts, as built by processFiles).
FileEntry(i, content) ==
  [path      |-> PathPool[i].path,
   name      |-> PathPool[i].name,
   content   |-> content,
   size      |-> Len(content),
   extension |-> PathPool[i].extension]

FileSets ==
  UNION {{[i \in 1..n |-> FileEntry(i, cs[i])] : cs \in [1..n -> Contents]}
         : n \in 0..MaxFiles}

WideFileSets ==
  UNION {{[i \in 1..n |-> FileEntry(i, cs[i])] : cs \in [1..n -> WideContents]}
         : n \in 1..MaxFiles}

\* ------------------------------------------------------------------------
\* Inputs of the pattern matcher: paths and patterns, one character per element
\* ------------------------------------------------------------------------

\* src/utils/helper.ts
PathSrcHelperTs ==
  <<"s", "r", "c", "/", "u", "t", "i", "l", "s", "/", "h", "e", "l", "p",
    "e", "r", ".", "t", "s">>

\* src/utils/deep/helper.ts
PathSrcDeepHelperTs ==
  <<"s", "r", "c", "/", "u", "t", "i", "l", "s", "/", "d", "e", "e", "p",
    "/", "h", "e", "l", "p", "e", "r", ".", "t", "s">>

\* src/utils/helper.js
PathSrcHelperJs ==
  <<"s", "r", "c", "/", "u", "t", "i", "l", "s", "/", "h", "e", "l", "p",
    "e", "r", ".", "j", "s">>

\* src/app.ts
PathSrcAppTs ==
  <<"s", "r", "c", "/", "a", "p", "p", ".", "t", "s">>

\* SRC/Utils/Helper.TS
PathUpperTs ==
  <<"S", "R", "C", "/", "U", "t", "i", "l", "s", "/", "H", "e", "l", "p",
    "e", "r", ".", "T", "S">>

\* src\utils\helper.ts
PathBackslash ==
  <<"s", "r", "c", "\\", "u", "t", "i", "l", "s", "\\", "h", "e", "l", "p",
    "e", "r", ".", "t", "s">>

\* vite.config.ts
PathViteConfig ==
  <<"v", "i", "t", "e", ".", "c", "o", "n", "f", "i", "g", ".", "t", "s">>

\* src/node_modules/x.ts
PathNodeModules ==
  <<"s", "r", "c", "/", "n", "o", "d", "e", "_", "m", "o", "d", "u", "l",
    "e", "s", "/", "x", ".", "t", "s">>

\* a/b/c.ts
PathABC ==
  <<"a", "/", "b", "/", "c", ".", "t", "s">>

\* my_node_modules/x.ts
PathMyNodeModules ==
  <<"m", "y", "_", "n", "o", "d", "e", "_", "m", "o", "d", "u", "l", "e",
    "s", "/", "x", ".", "t", "s">>

\* src/a?c
PathOneChar ==
  <<"s", "r", "c", "/", "a", "?", "c">>

\* README
PathReadme ==
  <<"R", "E", "A", "D", "M", "E">>

\* Vite.Config.TS
PathUpperConfig ==
  <<"V", "i", "t", "e", ".", "C", "o", "n", "f", "i", "g", ".", "T", "S">>

\* abc
PathSegmentAbc ==
  <<"a", "b", "c">>

\* node_modules/x.ts
PathRootNodeModules ==
  <<"n", "o", "d", "e", "_", "m", "o", "d", "u", "l", "e", "s", "/", "x",
    ".", "t", "s">>

MatchPaths ==
  {PathSrcHelperTs, PathSrcDeepHelperTs, PathSrcHelperJs,
   PathSrcAppTs, PathUpperTs, PathBackslash,
   PathViteConfig, PathNodeModules, PathABC,
   PathMyNodeModules, PathOneChar, PathReadme,
   PathUpperConfig, PathSegmentAbc, PathRootNodeModules}

\* src/**/*.ts
GlobSrcAnyTs ==
  <<"s", "r", "c", "/", "*", "*", "/", "*", ".", "t", "s">>

\* *.config.*
GlobConfig ==
  <<"*", ".", "c", "o", "n", "f", "i", "g", ".", "*">>

\* src/*.ts
GlobSrcStarTs ==
  <<"s", "r", "c", "/", "*", ".", "t", "s">>

\* **/*.ts
GlobAnyDepthTs ==
  <<"*", "*", "/", "*", ".", "t", "s">>

\* node_modules
ShortNodeModules ==
  <<"n", "o", "d", "e", "_", "m", "o", "d", "u", "l", "e", "s">>

\* a?c
ShortQuestion ==
  <<"a", "?", "c">>

\* src/utils/helper.?s
GlobQuestion ==
  <<"s", "r", "c", "/", "u", "t", "i", "l", "s", "/", "h", "e", "l", "p",
    "e", "r", ".", "?", "s">>

\* README
ShortReadme ==
  <<"R", "E", "A", "D", "M", "E">>

\* src/(a+b)*
GlobSpecial ==
  <<"s", "r", "c", "/", "(", "a", "+", "b", ")", "*">>

MatchPatterns ==
  {GlobSrcAnyTs, GlobConfig, GlobSrcStarTs,
   GlobAnyDepthTs, ShortNodeModules, ShortQuestion,
   GlobQuestion, ShortReadme, GlobSpecial}

\* Largest number of patterns in a pattern list.
MaxPatterns == 2

\* The pattern lists handed to the matcher (ignore patterns, bundle patterns).
PatternLists ==
  UNION {[1..n -> MatchPatterns] : n \in 0..MaxPatterns}

\* ------------------------------------------------------------------------
\* utils/patternMatcher.ts
\* ------------------------------------------------------------------------

\* The elements of several sequences, in order.
RECURSIVE Flatten(_)
Flatten(seqs) ==
  IF seqs = <<>> THEN <<>> ELSE Head(seqs) \o Flatten(Tail(seqs))

\* s.startsWith(p), s.endsWith(p), s.includes(p)
StartsWith(s, p) == Len(p) <= Len(s) /\ SubSeq(s, 1, Len(p)) = p

EndsWith(s, p) == Len(p) <= Len(s) /\ SubSeq(s, Len(s) - Len(p) + 1, Len(s)) = p

Includes(s, p) ==
  \E i \in 0..(Len(s) - Len(p)) : SubSeq(s, i + 1, i + Len(p)) = p

\* s.replace(/x/g, to) for a one-character x
ReplaceChar(s, x, to) ==
  Flatten([i \in 1..Len(s) |-> IF s[i] = x THEN to ELSE <<s[i]>>])

\* The characters of the class [.+^${}()|[\]\\]
RegexSpecial == {".", "+", "^", "$", "{", "}", "(", ")", "|", "[", "]", "\\"}

\* pattern.replace(/[.+^${}()|[\]\\]/g, '\\$&')
EscapeRegex(pattern) ==
  Flatten([i \in 1..Len(pattern) |->
             IF pattern[i] \in RegexSpecial
             THEN <<"\\", pattern[i]>>
             ELSE <<pattern[i]>>])

\* s.replace(/\*\*/g, '.*'): matches are found left to right and do not overlap.
RECURSIVE ReplaceDoubleStar(_)
ReplaceDoubleStar(s) ==
  IF s = <<>> THEN <<>>
  ELSE IF Len(s) >= 2 /\ s[1] = "*" /\ s[2] = "*"
  THEN <<".", "*">> \o ReplaceDoubleStar(SubSeq(s, 3, Len(s)))
  ELSE <<s[1]>> \o ReplaceDoubleStar(Tail(s))

\* The source of the expression globToRegex compiles, without ^ and $: the
\* three replacements run one after the other on the escaped pattern.
globToRegexString(pattern) ==
  LET escaped   == EscapeRegex(pattern)
      doubled   == ReplaceDoubleStar(escaped)
      starred   == ReplaceChar(doubled, "*", <<"[", "^", "/", "]", "*">>)
      questions == ReplaceChar(starred, "?", <<".">>)
  IN  questions

\* Atoms of a compiled expression.
LitAtom(ch) == [k |-> "lit", c |-> ch]

AnyAtom == [k |-> "any", c |-> ""]

NotSepStarAtom == [k |-> "notsepstar", c |-> ""]

InvalidAtom == [k |-> "invalid", c |-> ""]

\* new RegExp(source): the atoms of the source.  Backslash and a character is
\* that character, a dot any character, [^/]* a run of characters other than
\* the separator; a source that ends inside an escape or a class, or repeats
\* nothing, does not compile.
RECURSIVE RegexAtoms(_)
RegexAtoms(src) ==
  IF src = <<>> THEN <<>>
  ELSE IF src[1] = "\\"
  THEN IF Len(src) >= 2
       THEN <<LitAtom(src[2])>> \o RegexAtoms(SubSeq(src, 3, Len(src)))
       ELSE <<InvalidAtom>>
  ELSE IF src[1] = "."
  THEN <<AnyAtom>> \o RegexAtoms(Tail(src))
  ELSE IF src[1] = "["
  THEN IF Len(src) >= 5 /\ SubSeq(src, 1, 5) = <<"[", "^", "/", "]", "*">>
       THEN <<NotSepStarAtom>> \o RegexAtoms(SubSeq(src, 6, Len(src)))
       ELSE <<InvalidAtom>>
  ELSE IF src[1] \in {"*", "?", "+", ")", "("}
  THEN <<InvalidAtom>>
  ELSE <<LitAtom(src[1])>> \o RegexAtoms(Tail(src))

Compiles(atoms) == \A i \in 1..Len(atoms) : atoms[i] # InvalidAtom

UpperCase == <<"A", "B", "C", "D", "E", "F", "G", "H", "I", "J", "K", "L", "M",
               "N", "O", "P", "Q", "R", "S", "T", "U", "V", "W", "X", "Y", "Z">>

LowerCase == <<"a", "b", "c", "d", "e", "f", "g", "h", "i", "j", "k", "l", "m",
               "n", "o", "p", "q", "r", "s", "t", "u", "v", "w", "x", "y", "z">>

\* Comparison without the 'i' flag.
FoldCaseExact(ch) == ch

\* The canonical form the 'i' flag compares.
FoldCase(ch) ==
  IF \E i \in 1..26 : LowerCase[i] = ch
  THEN UpperCase[CHOOSE i \in 1..26 : LowerCase[i] = ch]
  ELSE ch

\* Characters a dot does not match.
LineTerminators == {"\n", "\r"}

\* regex.test(str) for the anchored expression ^atoms$ with the 'i' flag.
RECURSIVE RegexTest(_, _)
RegexTest(atoms, str) ==
  IF atoms = <<>> THEN str = <<>>
  ELSE LET a == Head(atoms)
       IN  IF a.k = "lit"
           THEN /\ str # <<>>
                /\ FoldCase(str[1]) = FoldCase(a.c)
                /\ RegexTest(Tail(atoms), Tail(str))
           ELSE IF a.k = "any"
           THEN /\ str # <<>>
                /\ str[1] \notin LineTerminators
                /\ RegexTest(Tail(atoms), Tail(str))
           ELSE \E n \in 0..Len(str) :
                  /\ \A j \in 1..n : str[j] # "/"
                  /\ RegexTest(Tail(atoms), SubSeq(str, n + 1, Len(str)))

\* The callback with a shorthand that looks for the pattern anywhere.
MatchesPatternSubstring(normalizedPath, pattern) ==
  IF pattern = normalizedPath THEN TRUE
  ELSE IF ~Includes(pattern, <<"/">>) /\ ~Includes(pattern, <<"*">>)
  THEN Includes(normalizedPath, pattern)
  ELSE LET regex == RegexAtoms(globToRegexString(pattern))
       IN  IF Compiles(regex) THEN RegexTest(regex, normalizedPath) ELSE FALSE

\* The callback of patterns.some (lines 35-58) for one pattern.
MatchesPattern(normalizedPath, pattern) ==
  IF pattern = normalizedPath THEN TRUE
  ELSE IF ~Includes(pattern, <<"/">>) /\ ~Includes(pattern, <<"*">>)
  THEN \/ Includes(normalizedPath, <<"/">> \o pattern \o <<"/">>)
       \/ StartsWith(normalizedPath, pattern \o <<"/">>)
       \/ EndsWith(normalizedPath, <<"/">> \o pattern)
       \/ normalizedPath = pattern
  ELSE LET regex == RegexAtoms(globToRegexString(pattern))
       IN  IF Compiles(regex) THEN RegexTest(regex, normalizedPath) ELSE FALSE

\* filePath.replace(/\\/g, '/')
NormalizePath(path) == ReplaceChar(path, "\\", <<"/">>)

\* A matcher that gives up after the first pattern.
matchesFirstPattern(path, patternList) ==
  LET normalizedPath == NormalizePath(path)
  IN  patternList # <<>> /\ MatchesPattern(normalizedPath, patternList[1])

\* export const matchesAnyPattern = (filePath, patterns) => ...
matchesAnyPattern(path, patternList) ==
  LET normalizedPath == NormalizePath(path)
  IN  \E i \in 1..Len(patternList) : MatchesPattern(normalizedPath, patternList[i])

\* ------------------------------------------------------------------------
\* utils/fileProcessor.ts and hasIgnoredExtension
\* ------------------------------------------------------------------------

\* Largest number of files in a selected FileList.
MaxRaw == 3

\* 500 * 1024
MAX_FILE_SIZE == 512000

\* The character code of '\0'.
NUL == 0

\* String.prototype.toLowerCase
ToLowerCase(s) ==
  [i \in 1..Len(s) |->
     IF \E j \in 1..26 : UpperCase[j] = s[i]
     THEN LowerCase[CHOOSE j \in 1..26 : UpperCase[j] = s[i]]
     ELSE s[i]]

\* fileName.split('.').pop(): what follows the last dot, the whole name when
\* it has no dot.
SplitDotPop(fileName) ==
  LET dots == {i \in 1..Len(fileName) : fileName[i] = "."}
  IN  IF dots = {} THEN fileName
      ELSE SubSeq(fileName, (CHOOSE i \in dots : \A j \in dots : j <= i) + 1,
                  Len(fileName))

\* export const hasIgnoredExtension = (fileName, ignoredExtensions) => ...
hasIgnoredExtension(fileName, ignoredExtensions) ==
  LET ext == <<".">> \o ToLowerCase(SplitDotPop(fileName))
  IN  \E i \in 1..Len(ignoredExtensions) : ignoredExtensions[i] = ext

\* A File of the FileList.  size is File.size and content what readAsText
\* delivers; readable is FALSE when the reader fires onerror instead.
RawFile(relPath, name, size, content, readable) ==
  [webkitRelativePath |-> relPath, name |-> name, size |-> size,
   content |-> content, readable |-> readable]

\* src/node_modules/x.ts: in an ignored directory, and could not be read
RawIgnoredDir ==
  RawFile(PathNodeModules, <<"x", ".", "t", "s">>, 40, <<>>, FALSE)

\* assets/Logo.PNG
RawUpperPng ==
  RawFile(<<"a", "s", "s", "e", "t", "s", "/", "L", "o", "g", "o", ".", "P",
            "N", "G">>,
          <<"L", "o", "g", "o", ".", "P", "N", "G">>, 2048, <<80, 78, 71>>,
          TRUE)

\* src/big.ts: one byte over the ceiling
RawTooLarge ==
  RawFile(<<"s", "r", "c", "/", "b", "i", "g", ".", "t", "s">>,
          <<"b", "i", "g", ".", "t", "s">>, MAX_FILE_SIZE + 1,
          <<98, NL, 98>>, TRUE)

\* src/limit.ts: exactly at the ceiling
RawAtLimit ==
  RawFile(<<"s", "r", "c", "/", "l", "i", "m", "i", "t", ".", "t", "s">>,
          <<"l", "i", "m", "i", "t", ".", "t", "s">>, MAX_FILE_SIZE,
          <<108, NL, 108>>, TRUE)

\* src/blob.dat: text with a NUL in it
RawWithNul ==
  RawFile(<<"s", "r", "c", "/", "b", "l", "o", "b", ".", "d", "a", "t">>,
          <<"b", "l", "o", "b", ".", "d", "a", "t">>, 3, <<97, NUL, 98>>,
          TRUE)

\* src/locked.ts: the reader fails
RawUnreadable ==
  RawFile(<<"s", "r", "c", "/", "l", "o", "c", "k", "e", "d", ".", "t", "s">>,
          <<"l", "o", "c", "k", "e", "d", ".", "t", "s">>, 12, <<>>, FALSE)

\* Makefile, picked on its own: no relative path and no dot in the name
RawNoDot ==
  RawFile(<<>>, <<"M", "a", "k", "e", "f", "i", "l", "e">>, 5,
          <<97, 108, 108, 58, NL>>, TRUE)

\* docs/README.MD
RawUpperMd ==
  RawFile(<<"d", "o", "c", "s", "/", "R", "E", "A", "D", "M", "E", ".", "M",
            "D">>,
          <<"R", "E", "A", "D", "M", "E", ".", "M", "D">>, 2, <<35, NL>>,
          TRUE)

RawFiles ==
  {RawIgnoredDir, RawUpperPng, RawTooLarge, RawAtLimit, RawWithNul,
   RawUnreadable, RawNoDot, RawUpperMd}

\* The FileLists a user can select: files of one tree, every path once.
RawFileLists ==
  UNION {{l \in [1..n -> RawFiles] :
            \A a, b \in 1..n : a # b => l[a] # l[b]} : n \in 0..MaxRaw}

\* The ignore patterns kept by App and the extension list it passes.
IgnorePatternLists == {<<>>, <<ShortNodeModules>>}

IgnoreExtensionLists == {<<>>, <<<<".", "p", "n", "g">>>>}

\* const path = file.webkitRelativePath || file.name
RawPath(file) ==
  IF file.webkitRelativePath # <<>> THEN file.webkitRelativePath
  ELSE file.name

\* event.target?.result as string || ''
ReadResult(file) == file.content

\* The object pushed to processedFiles (lines 52-58).
ProcessedEntry(file, content) ==
  [path      |-> RawPath(file),
   name      |-> file.name,
   content   |-> content,
   size      |-> file.size,
   extension |-> SplitDotPop(file.name)]

\* The order of characters under localeCompare, for the characters of the
\* paths above: punctuation first, then letters without regard to case.
CollationOrder == <<"_", "-", ".", "/">> \o LowerCase

CollationRank(ch) ==
  LET lower == ToLowerCase(<<ch>>)[1]
  IN  IF \E k \in 1..Len(CollationOrder) : CollationOrder[k] = lower
      THEN CHOOSE k \in 1..Len(CollationOrder) : CollationOrder[k] = lower
      ELSE 0

\* a.localeCompare(b): negative, zero or positive.  Strings are ordered by
\* their letters first; strings with the same letters by case, lower case
\* before upper case at the first difference.
LocaleCompare(a, b) ==
  LET common == Min(Len(a), Len(b))
      diff1  == {k \in 1..common : CollationRank(a[k]) # CollationRank(b[k])}
      diff3  == {k \in 1..common : a[k] # b[k]}
      first(S) == CHOOSE k \in S : \A j \in S : k <= j
  IN  IF diff1 # {}
      THEN IF CollationRank(a[first(diff1)]) < CollationRank(b[first(diff1)])
           THEN -1 ELSE 1
      ELSE IF Len(a) # Len(b)
      THEN IF Len(a) < Len(b) THEN -1 ELSE 1
      ELSE IF diff3 # {}
      THEN IF ToLowerCase(<<a[first(diff3)]>>)[1] = a[first(diff3)]
           THEN -1 ELSE 1
      ELSE 0

\* The entries as they were pushed.
SortByPathOmitted(entries) == entries

\* processedFiles.sort((a, b) => a.path.localeCompare(b.path)): the sort is
\* stable, entries that compare equal keep their order.
RECURSIVE SortByPath(_)
SortByPath(entries) ==
  IF entries = <<>> THEN <<>>
  ELSE LET sorted == SortByPath(SubSeq(entries, 1, Len(entries) - 1))
           x      == entries[Len(entries)]
           k      == Cardinality({j \in 1..Len(sorted) :
                        LocaleCompare(sorted[j].path, x.path) <= 0})
       IN  SubSeq(sorted, 1, k) \o <<x>> \o SubSeq(sorted, k + 1, Len(sorted))

\* ------------------------------------------------------------------------
\* OutputViewer: bundle selection
\* ------------------------------------------------------------------------

\* vite.config.ts
RawViteConfig ==
  RawFile(PathViteConfig, PathViteConfig, 6, <<118, NL, 105>>, TRUE)

\* src/app.ts
RawSrcApp ==
  RawFile(PathSrcAppTs, <<"a", "p", "p", ".", "t", "s">>, 4, <<97, NL>>, TRUE)

\* The entries processFiles makes of five files, in the order it returns them.
ViewerFilePool ==
  SortByPath(<< ProcessedEntry(RawViteConfig, ReadResult(RawViteConfig)),
                ProcessedEntry(RawSrcApp, ReadResult(RawSrcApp)),
                ProcessedEntry(RawAtLimit, ReadResult(RawAtLimit)),
                ProcessedEntry(RawNoDot, ReadResult(RawNoDot)),
                ProcessedEntry(RawUpperMd, ReadResult(RawUpperMd)) >>)

\* The lists App can hold: some of the five entries, in order.
ViewerFileLists ==
  {SelectSeq(ViewerFilePool, LAMBDA f : f.path \in keep) :
     keep \in SUBSET {ViewerFilePool[i].path : i \in 1..Len(ViewerFilePool)}}

\* The bundles given to the viewer.
ViewerBundles ==
  << [id |-> "config",  name |-> "Config",  patterns |-> <<GlobConfig>>],
     [id |-> "sources", name |-> "Sources", patterns |-> <<GlobSrcStarTs, GlobConfig>>],
     [id |-> "vendor",  name |-> "Vendor",  patterns |-> <<ShortNodeModules>>] >>

\* bundles.find(b => b.id === id): the index of the first bundle with that
\* id, 0 when there is none.
FindBundle(bundleList, id) ==
  IF \E i \in 1..Len(bundleList) : bundleList[i].id = id
  THEN CHOOSE i \in 1..Len(bundleList) :
         /\ bundleList[i].id = id
         /\ \A j \in 1..(i - 1) : bundleList[j].id # id
  ELSE 0

\* A filter that looks at the first pattern of the bundle only.
filteredFilesFirstPattern(fileProp, bundleList, id) ==
  IF id = "all" THEN fileProp
  ELSE IF FindBundle(bundleList, id) = 0 THEN fileProp
  ELSE SelectSeq(fileProp, LAMBDA f :
         matchesAnyPattern(f.path,
           SubSeq(bundleList[FindBundle(bundleList, id)].patterns, 1, 1)))

\* A filter that selects nothing when no bundle has the id.
filteredFilesEmptyOnMissing(fileProp, bundleList, id) ==
  IF id = "all" THEN fileProp
  ELSE IF FindBundle(bundleList, id) = 0 THEN <<>>
  ELSE SelectSeq(fileProp, LAMBDA f :
         matchesAnyPattern(f.path, bundleList[FindBundle(bundleList, id)].patterns))

\* Lines 36-43: const filteredFiles = useMemo(...)
filteredFiles(fileProp, bundleList, id) ==
  IF id = "all" THEN fileProp
  ELSE IF FindBundle(bundleList, id) = 0 THEN fileProp
  ELSE SelectSeq(fileProp, LAMBDA f :
         matchesAnyPattern(f.path, bundleList[FindBundle(bundleList, id)].patterns))

\* ------------------------------------------------------------------------
\* State
\* ------------------------------------------------------------------------

VARIABLES
  files,              \* filteredFiles: the file set given to the packer
  format,             \* useState: OutputFormat
  enableSplitting,    \* useState: boolean
  maxTokens,          \* useState: number
  pc,                 \* position in the `chunks` callback
  fileIdx,            \* index of `file` in the for-of loop (1-based)
  remainingContent,   \* let remainingContent
  partCounter,        \* let partCounter
  fileParts,          \* const fileParts: references into heap
  currentChunkFiles,  \* let currentChunkFiles: references into heap
  currentChunkSize,   \* let currentChunkSize
  resultChunks,       \* const resultChunks: [id, files: references]
  heap,               \* the ChunkFileEntry objects created by the loop
  chunks,             \* the value returned by the callback
  runs,               \* how many times the callback was invoked on these inputs
  prevChunks,         \* the value the previous invocation returned
  filePath,           \* matchesAnyPattern: argument filePath
  patterns,           \* matchesAnyPattern: argument patterns
  matchPc,            \* matchesAnyPattern: "call", "return" (or "idle")
  matchResult,        \* matchesAnyPattern: the value returned
  rawFileList,        \* handleFilesSelected / processFiles: argument fileList
  ignorePatterns,     \* App useState: ignorePatterns
  ignoreExtensions,   \* processFiles: argument ignoreExtensions
  filterPc,           \* position in handleFilesSelected and processFiles
  filterIdx,          \* processFiles: let i
  processedFiles,     \* processFiles: const processedFiles
  readCalls,          \* the values of i for which readFileContent was called
  isProcessing,       \* App useState: isProcessing
  progress,           \* App useState: progress
  totalFilesToProcess, \* App useState: totalFilesToProcess
  stats,              \* App useState: stats
  appFiles,           \* App useState: files, the `files` prop of the viewer
  bundles,            \* App useState: bundles, the `bundles` prop of the viewer
                      \* (the value of the array and of its objects)
  activeBundleId,     \* OutputViewer useState: activeBundleId
  bundleObjs,         \* the Bundle objects in memory: [id, name, patterns: reference]
  patternArrays,      \* the `patterns` arrays in memory
  bundlesRef,         \* App useState: bundles, as references into bundleObjs
  editingBundles,     \* SettingsModal useState: editingBundles, as references
  edits               \* number of edits made in the settings modal

vars == <<files, format, enableSplitting, maxTokens, pc, fileIdx,
          remainingContent, partCounter, fileParts, currentChunkFiles,
          currentChunkSize, resultChunks, heap, chunks, runs, prevChunks,
          filePath, patterns, matchPc, matchResult,
          rawFileList, ignorePatterns, ignoreExtensions, filterPc, filterIdx,
          processedFiles, readCalls, isProcessing, progress,
          totalFilesToProcess, stats, appFiles, bundles, activeBundleId,
          bundleObjs, patternArrays, bundlesRef, editingBundles, edits>>

matcher == <<filePath, patterns, matchPc, matchResult>>

filter == <<rawFileList, ignorePatterns, ignoreExtensions, filterPc, filterIdx,
            processedFiles, readCalls, isProcessing, progress,
            totalFilesToProcess, stats>>

viewer == <<appFiles, bundles, activeBundleId>>

modal == <<bundleObjs, patternArrays, bundlesRef, editingBundles, edits>>

\* The settings modal is not part of the run.
NoModal ==
  /\ bundleObjs = <<>>
  /\ patternArrays = <<>>
  /\ bundlesRef = <<>>
  /\ editingBundles = <<>>
  /\ edits = 0

inputs == <<files, format, enableSplitting, maxTokens>>

\* ------------------------------------------------------------------------
\* generateContent
\* ------------------------------------------------------------------------

\* Pieces of a rendered string: literal text, a number printed by a template
\* literal, a path, or file content (character codes).
Lit(s) == [k |-> "lit", s |-> s, n |-> 0, c |-> <<>>]

Num(n) == [k |-> "num", s |-> "", n |-> n, c |-> <<>>]

Txt(c) == [k |-> "txt", s |-> "", n |-> 0, c |-> c]

\* rendered.join(sep), for the array a map over fileList returned
RECURSIVE Join(_, _)
Join(rendered, sep) ==
  IF rendered = <<>> THEN <<>>
  ELSE IF Len(rendered) = 1 THEN rendered[1]
  ELSE Head(rendered) \o sep \o Join(Tail(rendered), sep)

\* JSON.stringify of a string: '\n' becomes backslash n, '"' and '\' are escaped.
JsonEscapeChar(ch) ==
  IF ch = NL THEN <<92, 110>>
  ELSE IF ch = 34 THEN <<92, 34>>
  ELSE IF ch = 92 THEN <<92, 92>>
  ELSE <<ch>>

RECURSIVE JsonEscape(_)
JsonEscape(s) ==
  IF Len(s) = 0 THEN <<>>
  ELSE IF Len(s) = 1 THEN JsonEscapeChar(s[1])
  ELSE LET h == Len(s) \div 2
       IN  JsonEscape(SubSeq(s, 1, h)) \o JsonEscape(SubSeq(s, h + 1, Len(s)))

XmlFile(f) ==
  <<Lit("  <file path=\""), Lit(f.originalPath), Lit("\"")>>
  \o (IF f.isSplit
      THEN <<Lit(" split_part=\""), Num(f.partIndex), Lit("\" split_total=\""),
             Num(f.totalParts), Lit("\"")>>
      ELSE <<>>)
  \o <<Lit(">\n<![CDATA[\n"), Txt(f.content), Lit("\n]]>\n  </file>")>>

\* The three backquotes of a fenced code block.
Fence == Txt(<<96, 96, 96>>)

MarkdownFile(f) ==
  <<Lit("### File: "), Lit(f.originalPath)>>
  \o (IF f.isSplit
      THEN <<Lit(" (Part "), Num(f.partIndex), Lit(" of "), Num(f.totalParts),
             Lit(")")>>
      ELSE <<>>)
  \o <<Lit("\n"), Fence, Lit(f.extension), Lit("\n"), Txt(f.content), Lit("\n"), Fence>>

JsonFile(f) ==
  <<Lit("    {\n      \"path\": \""), Lit(f.originalPath),
    Lit("\",\n      \"content\": \""), Txt(JsonEscape(f.content)), Lit("\"")>>
  \o (IF f.isSplit
      THEN <<Lit(",\n      \"split\": {\n        \"part\": "), Num(f.partIndex),
             Lit(",\n        \"total\": "), Num(f.totalParts), Lit("\n      }")>>
      ELSE <<>>)
  \o <<Lit("\n    }")>>

\* generateContent(fileList, part, totalParts); part = 0 stands for an
\* omitted (undefined) part, which the test of part treats like 0.
generateContent(fmt, fileList, part, totalParts) ==
  IF Len(fileList) = 0 THEN <<>>
  ELSE IF fmt = "xml" THEN
    <<Lit("<project_context")>>
    \o (IF part # 0
        THEN <<Lit(" part=\""), Num(part), Lit("\" total_parts=\""),
               Num(totalParts), Lit("\"")>>
        ELSE <<>>)
    \o <<Lit(">\n")>>
    \o Join([i \in 1..Len(fileList) |-> XmlFile(fileList[i])], <<Lit("\n")>>)
    \o <<Lit("\n</project_context>")>>
  ELSE IF fmt = "markdown" THEN
    (IF part # 0
     THEN <<Lit("# Project Context - Part "), Num(part), Lit(" of "),
            Num(totalParts), Lit("\n\n")>>
     ELSE <<>>)
    \o Join([i \in 1..Len(fileList) |-> MarkdownFile(fileList[i])], <<Lit("\n\n")>>)
  ELSE
    <<Lit("{\n")>>
    \o (IF part # 0
        THEN <<Lit("  \"meta\": {\n    \"part\": "), Num(part),
               Lit(",\n    \"totalParts\": "), Num(totalParts), Lit("\n  },\n")>>
        ELSE <<>>)
    \o <<Lit("  \"files\": [\n")>>
    \o Join([i \in 1..Len(fileList) |-> JsonFile(fileList[i])], <<Lit(",\n")>>)
    \o <<Lit("\n  ]\n}")>>

\* ------------------------------------------------------------------------
\* The `chunks` callback
\* ------------------------------------------------------------------------

\* Mutant of ChunkFileEntry: parts are numbered from 0.
ChunkFileEntryZeroBased(f) ==
  [path         |-> f.path,
   name         |-> f.name,
   content      |-> f.content,
   size         |-> f.size,
   extension    |-> f.extension,
   originalPath |-> f.path,
   isSplit      |-> FALSE,
   partIndex    |-> 0,
   totalParts   |-> 1]

\* One element of allFilesAsChunkFiles.
ChunkFileEntry(f) ==
  [path         |-> f.path,
   name         |-> f.name,
   content      |-> f.content,
   size         |-> f.size,
   extension    |-> f.extension,
   originalPath |-> f.path,
   isSplit      |-> FALSE,
   partIndex    |-> 1,
   totalParts   |-> 1]

allFilesAsChunkFiles == [i \in 1..Len(files) |-> ChunkFileEntry(files[i])]

limitChars == maxTokens * CHARS_PER_TOKEN

\* A split point at the last newline before the limit, however far back.
findSplitPointAnyNewline(text, maxChars) ==
  IF Len(text) <= maxChars THEN Len(text)
  ELSE LET lastNewline == LastIndexOf(text, NL, maxChars)
       IN  IF lastNewline >= 0
           THEN lastNewline + 1
           ELSE maxChars

\* const findSplitPoint = (text, maxChars) => ...
\* The comparison lastNewline > maxChars - Math.min(1000, maxChars * 0.2) is
\* taken times five, which keeps it in the integers.
findSplitPoint(text, maxChars) ==
  IF Len(text) <= maxChars THEN Len(text)
  ELSE LET searchWindow5 == Min(5 * SEARCH_WINDOW_MAX, maxChars)
           lastNewline   == LastIndexOf(text, NL, maxChars)
       IN  IF 5 * lastNewline > 5 * maxChars - searchWindow5
           THEN lastNewline + 1
           ELSE maxChars

\* The objects of an array of references.
Deref(refs) == [i \in 1..Len(refs) |-> heap[refs[i]]]

\* resultChunks.push({ id: `temp-${resultChunks.length}`, files: currentChunkFiles })
PushChunk(rc, refs) ==
  Append(rc, [id |-> <<Lit("temp-"), Num(Len(rc))>>, files |-> refs])

\* The stats of App before anything was processed.
NoStats ==
  [totalFiles |-> 0, processedFiles |-> 0, totalSize |-> 0, skippedFiles |-> 0]

Init ==
  /\ files \in FileSets
  /\ format \in Formats
  /\ enableSplitting \in BOOLEAN
  /\ maxTokens \in Budgets
  /\ pc = "start"
  /\ fileIdx = 0
  /\ remainingContent = <<>>
  /\ partCounter = 0
  /\ fileParts = <<>>
  /\ currentChunkFiles = <<>>
  /\ currentChunkSize = 0
  /\ resultChunks = <<>>
  /\ heap = <<>>
  /\ chunks = <<>>
  /\ runs = 1
  /\ prevChunks = <<>>
  /\ filePath = <<>>
  /\ patterns = <<>>
  /\ matchPc = "idle"
  /\ matchResult = FALSE
  /\ rawFileList = <<>>
  /\ ignorePatterns = <<>>
  /\ ignoreExtensions = <<>>
  /\ filterPc = "unused"
  /\ filterIdx = 0
  /\ processedFiles = <<>>
  /\ readCalls = <<>>
  /\ isProcessing = FALSE
  /\ progress = 0
  /\ totalFilesToProcess = 0
  /\ stats = NoStats
  /\ appFiles = files
  /\ bundles = <<>>
  /\ activeBundleId = "all"
  /\ NoModal

\* Mutant of FreshLocals: currentChunkSize is declared outside the callback
\* and keeps the value the previous invocation left.
StaleLocals ==
  /\ fileIdx' = 1
  /\ remainingContent' = <<>>
  /\ partCounter' = 0
  /\ fileParts' = <<>>
  /\ currentChunkFiles' = <<>>
  /\ currentChunkSize' = currentChunkSize
  /\ resultChunks' = <<>>
  /\ heap' = <<>>

\* The callback's locals (lines 128-132, 145-147) as a fresh invocation sees
\* them: nothing of an earlier invocation is left.
FreshLocals ==
  /\ fileIdx' = 1
  /\ remainingContent' = <<>>
  /\ partCounter' = 0
  /\ fileParts' = <<>>
  /\ currentChunkFiles' = <<>>
  /\ currentChunkSize' = CHUNK_OVERHEAD
  /\ resultChunks' = <<>>
  /\ heap' = <<>>

\* Mutant of EarlyReturn: the empty guard of lines 115-117 is missing.
EarlyReturnNoGuard ==
  IF ~enableSplitting
  THEN /\ chunks' = << [id      |-> <<Lit("full")>>,
                        content |-> generateContent(format, allFilesAsChunkFiles, 0, 0),
                        files   |-> allFilesAsChunkFiles,
                        label   |-> <<Lit("Full Context")>>] >>
       /\ pc' = "done"
  ELSE /\ chunks' = <<>>
       /\ pc' = "for"

\* Lines 115-126: the empty guard and the non-splitting branch; otherwise the
\* packing loop is entered.
EarlyReturn ==
  IF Len(allFilesAsChunkFiles) = 0
  THEN /\ chunks' = <<>>
       /\ pc' = "done"
  ELSE IF ~enableSplitting
  THEN /\ chunks' = << [id      |-> <<Lit("full")>>,
                        content |-> generateContent(format, allFilesAsChunkFiles, 0, 0),
                        files   |-> allFilesAsChunkFiles,
                        label   |-> <<Lit("Full Context")>>] >>
       /\ pc' = "done"
  ELSE /\ chunks' = <<>>
       /\ pc' = "for"

\* Lines 103-132: the callback is entered.
Start ==
  /\ pc = "start"
  /\ FreshLocals
  /\ EarlyReturn
  /\ UNCHANGED <<modal, inputs, matcher, filter, viewer, runs, prevChunks>>

\* Lines 144-147: the head of `for (const file of allFilesAsChunkFiles)`.
NextFile ==
  /\ pc = "for"
  /\ IF fileIdx <= Len(allFilesAsChunkFiles)
     THEN /\ remainingContent' = allFilesAsChunkFiles[fileIdx].content
          /\ partCounter' = 1
          /\ fileParts' = <<>>
          /\ pc' = "while"
     ELSE /\ pc' = "flush"
          /\ UNCHANGED <<remainingContent, partCounter, fileParts>>
  /\ UNCHANGED <<modal, inputs, matcher, filter, viewer, runs, prevChunks, fileIdx, currentChunkFiles, currentChunkSize,
                 resultChunks, heap, chunks>>

\* Mutant of ThresholdFlush: the closed chunk's array is kept as the current one.
ThresholdFlushNoReset ==
  /\ pc = "while"
  /\ Len(remainingContent) > 0
  /\ LET spaceInCurrent      == limitChars - currentChunkSize
         maxContentInCurrent == spaceInCurrent - PER_FILE_OVERHEAD
     IN  /\ maxContentInCurrent < MIN_USABLE_SPACE
         /\ Len(currentChunkFiles) > 0
  /\ resultChunks' = PushChunk(resultChunks, currentChunkFiles)
  /\ currentChunkFiles' = currentChunkFiles
  /\ currentChunkSize' = CHUNK_OVERHEAD
  /\ UNCHANGED <<modal, inputs, matcher, filter, viewer, runs, prevChunks, pc, fileIdx, remainingContent,
                 partCounter, fileParts, heap, chunks>>

\* A flush for want of space that takes effect below 400 characters only.
ThresholdFlushLate ==
  /\ pc = "while"
  /\ Len(remainingContent) > 0
  /\ LET spaceInCurrent      == limitChars - currentChunkSize
         maxContentInCurrent == spaceInCurrent - PER_FILE_OVERHEAD
     IN  IF maxContentInCurrent < MIN_USABLE_SPACE - 100
         THEN /\ Len(currentChunkFiles) > 0
              /\ resultChunks' = PushChunk(resultChunks, currentChunkFiles)
              /\ currentChunkFiles' = <<>>
              /\ currentChunkSize' = CHUNK_OVERHEAD
              /\ UNCHANGED <<remainingContent, heap>>
         ELSE /\ maxContentInCurrent < MIN_USABLE_SPACE
              /\ Len(currentChunkFiles) > 0
              /\ remainingContent' = <<>>
              /\ heap' = Append(heap, [allFilesAsChunkFiles[fileIdx] EXCEPT
                                         !.content = remainingContent,
                                         !.partIndex = partCounter])
              /\ currentChunkFiles' = Append(currentChunkFiles, Len(heap) + 1)
              /\ currentChunkSize' = currentChunkSize + Len(remainingContent)
                                        + PER_FILE_OVERHEAD
              /\ UNCHANGED resultChunks
  /\ UNCHANGED <<modal, inputs, matcher, filter, viewer, runs, prevChunks, pc, fileIdx,
                 partCounter, fileParts, chunks>>

\* Lines 150-160: the current chunk has content and too little room left.
ThresholdFlush ==
  /\ pc = "while"
  /\ Len(remainingContent) > 0
  /\ LET spaceInCurrent      == limitChars - currentChunkSize
         maxContentInCurrent == spaceInCurrent - PER_FILE_OVERHEAD
     IN  /\ maxContentInCurrent < MIN_USABLE_SPACE
         /\ Len(currentChunkFiles) > 0
  /\ resultChunks' = PushChunk(resultChunks, currentChunkFiles)
  /\ currentChunkFiles' = <<>>
  /\ currentChunkSize' = CHUNK_OVERHEAD
  /\ UNCHANGED <<modal, inputs, matcher, filter, viewer, runs, prevChunks, pc, fileIdx, remainingContent, partCounter, fileParts,
                 heap, chunks>>

\* Mutant of NextPart: the remainder is cut at the hard limit, not at the
\* split point that was found.
NextPartHardRemainder(file, remaining, counter, currentSpace) ==
  IF Len(remaining) <= currentSpace
  THEN [part      |-> [file EXCEPT !.content = remaining, !.partIndex = counter],
        remaining |-> <<>>,
        counter   |-> counter]
  ELSE LET splitLength  == findSplitPoint(remaining, currentSpace)
           chunkContent == Slice(remaining, 0, splitLength)
       IN  [part      |-> [file EXCEPT !.content = chunkContent, !.partIndex = counter],
            remaining |-> SliceFrom(remaining, currentSpace),
            counter   |-> counter + 1]

\* The part pushed to fileParts by lines 164-183, and what is left of the file.
NextPart(file, remaining, counter, currentSpace) ==
  IF Len(remaining) <= currentSpace
  THEN [part      |-> [file EXCEPT !.content = remaining, !.partIndex = counter],
        remaining |-> <<>>,
        counter   |-> counter]
  ELSE LET splitLength  == findSplitPoint(remaining, currentSpace)
           chunkContent == Slice(remaining, 0, splitLength)
       IN  [part      |-> [file EXCEPT !.content = chunkContent, !.partIndex = counter],
            remaining |-> SliceFrom(remaining, splitLength),
            counter   |-> counter + 1]

\* An emission that leaves the chunk open when content of the file remains.
EmitPartNoFlush ==
  /\ pc = "while"
  /\ Len(remainingContent) > 0
  /\ partCounter <= MaxParts
  /\ LET spaceInCurrent      == limitChars - currentChunkSize
         maxContentInCurrent == spaceInCurrent - PER_FILE_OVERHEAD
     IN  ~(maxContentInCurrent < MIN_USABLE_SPACE /\ Len(currentChunkFiles) > 0)
  /\ LET currentSpace == limitChars - currentChunkSize - PER_FILE_OVERHEAD
         step         == NextPart(allFilesAsChunkFiles[fileIdx], remainingContent,
                                  partCounter, currentSpace)
         lastPart     == Len(heap) + 1
     IN  /\ heap' = Append(heap, step.part)
         /\ fileParts' = Append(fileParts, lastPart)
         /\ remainingContent' = step.remaining
         /\ partCounter' = step.counter
         /\ resultChunks' = resultChunks
         /\ currentChunkFiles' = Append(currentChunkFiles, lastPart)
         /\ currentChunkSize' = currentChunkSize + Len(step.part.content)
                                   + PER_FILE_OVERHEAD
  /\ UNCHANGED <<modal, inputs, matcher, filter, viewer, runs, prevChunks, pc, fileIdx, chunks>>

\* Lines 162-193: one part is emitted into the current chunk; the chunk is
\* closed when content of the file remains.
EmitPart ==
  /\ pc = "while"
  /\ Len(remainingContent) > 0
  /\ partCounter <= MaxParts
  /\ LET spaceInCurrent      == limitChars - currentChunkSize
         maxContentInCurrent == spaceInCurrent - PER_FILE_OVERHEAD
     IN  ~(maxContentInCurrent < MIN_USABLE_SPACE /\ Len(currentChunkFiles) > 0)
  /\ LET currentSpace == limitChars - currentChunkSize - PER_FILE_OVERHEAD
         step         == NextPart(allFilesAsChunkFiles[fileIdx], remainingContent,
                                  partCounter, currentSpace)
         lastPart     == Len(heap) + 1
         pushed       == Append(currentChunkFiles, lastPart)
         size         == currentChunkSize + Len(step.part.content) + PER_FILE_OVERHEAD
     IN  /\ heap' = Append(heap, step.part)
         /\ fileParts' = Append(fileParts, lastPart)
         /\ remainingContent' = step.remaining
         /\ partCounter' = step.counter
         /\ IF Len(step.remaining) > 0
            THEN /\ resultChunks' = PushChunk(resultChunks, pushed)
                 /\ currentChunkFiles' = <<>>
                 /\ currentChunkSize' = CHUNK_OVERHEAD
            ELSE /\ resultChunks' = resultChunks
                 /\ currentChunkFiles' = pushed
                 /\ currentChunkSize' = size
  /\ UNCHANGED <<modal, inputs, matcher, filter, viewer, runs, prevChunks, pc, fileIdx, chunks>>

\* Mutant of MarkSplit: fileParts holds copies, so only the parts still in
\* the current chunk are marked.
MarkSplitCurrentOnly(h, parts) ==
  [r \in 1..Len(h) |->
     IF /\ \E i \in 1..Len(parts) : parts[i] = r
        /\ \E i \in 1..Len(currentChunkFiles) : currentChunkFiles[i] = r
     THEN [h[r] EXCEPT !.isSplit = TRUE, !.totalParts = Len(parts)]
     ELSE h[r]]

\* fileParts.forEach(p => { p.isSplit = true; p.totalParts = totalParts; })
MarkSplit(h, parts) ==
  [r \in 1..Len(h) |->
     IF \E i \in 1..Len(parts) : parts[i] = r
     THEN [h[r] EXCEPT !.isSplit = TRUE, !.totalParts = Len(parts)]
     ELSE h[r]]

\* Lines 196-202: the file is consumed; its parts are marked when it was split.
FileDone ==
  /\ pc = "while"
  /\ Len(remainingContent) = 0
  /\ LET totalParts == Len(fileParts)
     IN  heap' = IF totalParts > 1 THEN MarkSplit(heap, fileParts) ELSE heap
  /\ fileIdx' = fileIdx + 1
  /\ pc' = "for"
  /\ UNCHANGED <<modal, inputs, matcher, filter, viewer, runs, prevChunks, remainingContent, partCounter, fileParts,
                 currentChunkFiles, currentChunkSize, resultChunks, chunks>>

\* A label that counts the chunks closed so far instead of all of them.
PartLabelRunning(i, n) == <<Lit("Part "), Num(i), Lit(" of "), Num(i)>>

\* `Part ${index + 1} of ${resultChunks.length}`
PartLabel(i, n) == <<Lit("Part "), Num(i), Lit(" of "), Num(n)>>

\* Lines 205-214: the last chunk is closed and every chunk is rendered.
Finish ==
  /\ pc = "flush"
  /\ LET final == IF Len(currentChunkFiles) > 0
                  THEN PushChunk(resultChunks, currentChunkFiles)
                  ELSE resultChunks
     IN  /\ resultChunks' = final
         /\ chunks' = [index \in 1..Len(final) |->
                         [id      |-> <<Lit("part-"), Num(index)>>,
                          content |-> generateContent(format, Deref(final[index].files),
                                                      index, Len(final)),
                          files   |-> Deref(final[index].files),
                          label   |-> PartLabel(index, Len(final))]]
  /\ pc' = "done"
  /\ UNCHANGED <<modal, inputs, matcher, filter, viewer, runs, prevChunks, fileIdx, remainingContent, partCounter, fileParts,
                 currentChunkFiles, currentChunkSize, heap>>

\* useMemo evaluates the callback again on the same dependencies (the
\* component is mounted again, or rendered twice by the framework).
Recompute ==
  /\ pc = "done"
  /\ runs < MaxRuns
  /\ runs' = runs + 1
  /\ prevChunks' = chunks
  /\ pc' = "start"
  /\ UNCHANGED <<modal, inputs, matcher, filter, viewer, fileIdx, remainingContent, partCounter, fileParts,
                 currentChunkFiles, currentChunkSize, resultChunks, heap, chunks>>

Next ==
  \/ Start
  \/ NextFile
  \/ ThresholdFlush
  \/ EmitPart
  \/ FileDone
  \/ Finish
  \/ Recompute

Spec == Init /\ [][Next]_vars

\* The viewer in splitting mode with a budget of 200 tokens or more.
InitWide ==
  /\ files \in WideFileSets
  /\ format \in Formats
  /\ enableSplitting = TRUE
  /\ maxTokens \in WideBudgets
  /\ pc = "start"
  /\ fileIdx = 0
  /\ remainingContent = <<>>
  /\ partCounter = 0
  /\ fileParts = <<>>
  /\ currentChunkFiles = <<>>
  /\ currentChunkSize = 0
  /\ resultChunks = <<>>
  /\ heap = <<>>
  /\ chunks = <<>>
  /\ runs = 1
  /\ prevChunks = <<>>
  /\ filePath = <<>>
  /\ patterns = <<>>
  /\ matchPc = "idle"
  /\ matchResult = FALSE
  /\ rawFileList = <<>>
  /\ ignorePatterns = <<>>
  /\ ignoreExtensions = <<>>
  /\ filterPc = "unused"
  /\ filterIdx = 0
  /\ processedFiles = <<>>
  /\ readCalls = <<>>
  /\ isProcessing = FALSE
  /\ progress = 0
  /\ totalFilesToProcess = 0
  /\ stats = NoStats
  /\ appFiles = files
  /\ bundles = <<>>
  /\ activeBundleId = "all"
  /\ NoModal

SpecWide == InitWide /\ [][Next]_vars

\* ------------------------------------------------------------------------
\* The pattern matcher on its own
\* ------------------------------------------------------------------------

\* A call of matchesAnyPattern is about to be made; the viewer is not mounted.
InitMatch ==
  /\ filePath \in MatchPaths
  /\ patterns \in PatternLists
  /\ matchPc = "call"
  /\ matchResult = FALSE
  /\ files = <<>>
  /\ format = "xml"
  /\ enableSplitting = FALSE
  /\ maxTokens = 0
  /\ pc = "idle"
  /\ fileIdx = 0
  /\ remainingContent = <<>>
  /\ partCounter = 0
  /\ fileParts = <<>>
  /\ currentChunkFiles = <<>>
  /\ currentChunkSize = 0
  /\ resultChunks = <<>>
  /\ heap = <<>>
  /\ chunks = <<>>
  /\ runs = 1
  /\ prevChunks = <<>>
  /\ rawFileList = <<>>
  /\ ignorePatterns = <<>>
  /\ ignoreExtensions = <<>>
  /\ filterPc = "unused"
  /\ filterIdx = 0
  /\ processedFiles = <<>>
  /\ readCalls = <<>>
  /\ isProcessing = FALSE
  /\ progress = 0
  /\ totalFilesToProcess = 0
  /\ stats = NoStats
  /\ appFiles = files
  /\ bundles = <<>>
  /\ activeBundleId = "all"
  /\ NoModal

\* Lines 31-59: the call returns.
MatchesAnyPattern ==
  /\ matchPc = "call"
  /\ matchResult' = matchesAnyPattern(filePath, patterns)
  /\ matchPc' = "return"
  /\ UNCHANGED <<modal, inputs, filter, viewer, filePath, patterns, runs, prevChunks, pc, fileIdx,
                 remainingContent, partCounter, fileParts, currentChunkFiles,
                 currentChunkSize, resultChunks, heap, chunks>>

NextMatch == MatchesAnyPattern

SpecMatch == InitMatch /\ [][NextMatch]_vars

\* ------------------------------------------------------------------------
\* App.handleFilesSelected and processFiles
\* ------------------------------------------------------------------------

\* App has been constructed and shows the directory picker; the viewer is not
\* mounted.
InitFilter ==
  /\ ignorePatterns \in IgnorePatternLists
  /\ ignoreExtensions \in IgnoreExtensionLists
  /\ rawFileList = <<>>
  /\ filterPc = "idle"
  /\ filterIdx = 0
  /\ processedFiles = <<>>
  /\ readCalls = <<>>
  /\ isProcessing = FALSE
  /\ progress = 0
  /\ totalFilesToProcess = 0
  /\ stats = NoStats
  /\ appFiles = <<>>
  /\ bundles = <<>>
  /\ activeBundleId = "all"
  /\ NoModal
  /\ files = <<>>
  /\ format = "xml"
  /\ enableSplitting = FALSE
  /\ maxTokens = 25000
  /\ pc = "idle"
  /\ fileIdx = 0
  /\ remainingContent = <<>>
  /\ partCounter = 0
  /\ fileParts = <<>>
  /\ currentChunkFiles = <<>>
  /\ currentChunkSize = 0
  /\ resultChunks = <<>>
  /\ heap = <<>>
  /\ chunks = <<>>
  /\ runs = 1
  /\ prevChunks = <<>>
  /\ filePath = <<>>
  /\ patterns = <<>>
  /\ matchPc = "idle"
  /\ matchResult = FALSE

packer == <<pc, fileIdx, remainingContent, partCounter, fileParts,
            currentChunkFiles, currentChunkSize, resultChunks, heap, chunks,
            runs, prevChunks>>

\* App.tsx lines 62-69: the handler runs up to its first await.
HandleFilesSelected ==
  /\ filterPc = "idle"
  /\ \E list \in RawFileLists :
       /\ rawFileList' = list
       /\ totalFilesToProcess' = Len(list)
  /\ isProcessing' = TRUE
  /\ progress' = 0
  /\ filterPc' = "timeout"
  /\ UNCHANGED <<modal, inputs, matcher, viewer, packer, ignorePatterns,
                 ignoreExtensions, filterIdx, processedFiles, readCalls,
                 stats>>

\* App.tsx line 71 and fileProcessor.ts lines 21-25: the delay is over and
\* processFiles is called.
CallProcessFiles ==
  /\ filterPc = "timeout"
  /\ processedFiles' = <<>>
  /\ filterIdx' = 0
  /\ readCalls' = <<>>
  /\ filterPc' = "loop"
  /\ UNCHANGED <<modal, inputs, matcher, viewer, packer, rawFileList, ignorePatterns,
                 ignoreExtensions, isProcessing, progress,
                 totalFilesToProcess, stats>>

\* Lines 29-31 with the callback of App.tsx lines 75-79: the value of
\* progress after iteration i of total.
ProgressAfter(i, total) ==
  IF (i % 5 = 0 \/ i = total - 1) /\ ((i + 1) % 10 = 0 \/ i + 1 = total)
  THEN i + 1
  ELSE progress

\* if (file.size > 500 * 1024) continue, with >= for >.
ExceedsCeilingInclusive(file) == file.size >= MAX_FILE_SIZE

\* if (file.size > 500 * 1024) continue
ExceedsCeiling(file) == file.size > MAX_FILE_SIZE

\* Lines 37-44: one of the three checks made before the file is read
\* rejects it.
RejectedBeforeRead(file) ==
  \/ matchesAnyPattern(RawPath(file), ignorePatterns)
  \/ hasIgnoredExtension(file.name, ignoreExtensions)
  \/ ExceedsCeiling(file)

\* Lines 25-47: one iteration of the loop, up to `continue` or to the await.
LoopIteration ==
  /\ filterPc = "loop"
  /\ filterIdx < Len(rawFileList)
  /\ progress' = ProgressAfter(filterIdx, Len(rawFileList))
  /\ IF RejectedBeforeRead(rawFileList[filterIdx + 1])
     THEN /\ filterIdx' = filterIdx + 1
          /\ UNCHANGED <<filterPc, readCalls>>
     ELSE /\ readCalls' = Append(readCalls, filterIdx)
          /\ filterPc' = "await"
          /\ UNCHANGED filterIdx
  /\ UNCHANGED <<modal, inputs, matcher, viewer, packer, rawFileList, ignorePatterns,
                 ignoreExtensions, processedFiles, isProcessing,
                 totalFilesToProcess, stats>>

\* A loop that a failed read ends, with nothing kept.
ReadOutcomeAborting(file) ==
  IF file.readable
  THEN /\ processedFiles' =
            IF \E k \in 1..Len(ReadResult(file)) : ReadResult(file)[k] = NUL
            THEN processedFiles
            ELSE Append(processedFiles, ProcessedEntry(file, ReadResult(file)))
       /\ filterIdx' = filterIdx + 1
  ELSE /\ processedFiles' = <<>>
       /\ filterIdx' = Len(rawFileList)

\* Lines 47-61: the promise of readFileContent settles; a rejection is
\* caught and logged.
ReadOutcome(file) ==
  /\ processedFiles' =
       IF /\ file.readable
          /\ ~\E k \in 1..Len(ReadResult(file)) : ReadResult(file)[k] = NUL
       THEN Append(processedFiles, ProcessedEntry(file, ReadResult(file)))
       ELSE processedFiles
  /\ filterIdx' = filterIdx + 1

ReadSettled ==
  /\ filterPc = "await"
  /\ ReadOutcome(rawFileList[filterIdx + 1])
  /\ filterPc' = "loop"
  /\ UNCHANGED <<modal, inputs, matcher, viewer, packer, rawFileList, ignorePatterns,
                 ignoreExtensions, readCalls, isProcessing, progress,
                 totalFilesToProcess, stats>>

\* processed.reduce((acc, curr) => acc + curr.size, 0)
RECURSIVE TotalSize(_)
TotalSize(entries) ==
  IF entries = <<>> THEN 0 ELSE Head(entries).size + TotalSize(Tail(entries))

\* Line 64 and App.tsx lines 80-95: the loop is over, the entries are sorted
\* and returned, and App stores them; the viewer gets them as its files.
ProcessReturn ==
  /\ filterPc = "loop"
  /\ filterIdx >= Len(rawFileList)
  /\ LET processed == SortByPath(processedFiles)
     IN  /\ processedFiles' = processed
         /\ stats' = [totalFiles     |-> Len(rawFileList),
                      processedFiles |-> Len(processed),
                      totalSize      |-> TotalSize(processed),
                      skippedFiles   |-> Len(rawFileList) - Len(processed)]
         /\ appFiles' = processed
         /\ files' = processed
  /\ isProcessing' = FALSE
  /\ filterPc' = "done"
  /\ UNCHANGED <<modal, format, enableSplitting, maxTokens, matcher, packer, bundles,
                 activeBundleId, rawFileList, ignorePatterns, ignoreExtensions,
                 filterIdx, readCalls, progress, totalFilesToProcess>>

NextFilter ==
  \/ HandleFilesSelected
  \/ CallProcessFiles
  \/ LoopIteration
  \/ ReadSettled
  \/ ProcessReturn

SpecFilter == InitFilter /\ [][NextFilter]_vars

\* App.tsx lines 99-109 (src/App.tsx lines 115-125), the Start Over button
\* of OutputViewer.tsx lines 327-333. The viewer and its button are rendered
\* when files is non-empty or isProcessing is set (App.tsx line 146), so the
\* handler can run while processFiles is in flight; it sets four states and
\* leaves the pending call and isProcessing alone. After a finished run the
\* picker is rendered again.
HandleReset ==
  /\ Len(appFiles) # 0 \/ isProcessing
  /\ appFiles' = <<>>
  /\ files' = <<>>
  /\ stats' = NoStats
  /\ progress' = 0
  /\ totalFilesToProcess' = 0
  /\ filterPc' = IF filterPc = "done" THEN "idle" ELSE filterPc
  /\ UNCHANGED <<modal, format, enableSplitting, maxTokens, matcher, packer, bundles,
                 activeBundleId, rawFileList, ignorePatterns, ignoreExtensions,
                 filterIdx, processedFiles, readCalls, isProcessing>>

NextReset ==
  \/ NextFilter
  \/ HandleReset

\* Folder selections, processing and resets in any order.
SpecReset == InitFilter /\ [][NextReset]_vars

\* ------------------------------------------------------------------------
\* The viewer with bundles
\* ------------------------------------------------------------------------

\* The viewer is mounted on a processed file set, with all files selected,
\* and is about to compute its chunks.
InitBundle ==
  /\ appFiles \in ViewerFileLists
  /\ appFiles # <<>>
  /\ bundles = ViewerBundles
  /\ activeBundleId = "all"
  /\ NoModal
  /\ files = appFiles
  /\ format \in Formats
  /\ enableSplitting = FALSE
  /\ maxTokens = 25000
  /\ pc = "start"
  /\ fileIdx = 0
  /\ remainingContent = <<>>
  /\ partCounter = 0
  /\ fileParts = <<>>
  /\ currentChunkFiles = <<>>
  /\ currentChunkSize = 0
  /\ resultChunks = <<>>
  /\ heap = <<>>
  /\ chunks = <<>>
  /\ runs = 1
  /\ prevChunks = <<>>
  /\ filePath = <<>>
  /\ patterns = <<>>
  /\ matchPc = "idle"
  /\ matchResult = FALSE
  /\ rawFileList = <<>>
  /\ ignorePatterns = <<>>
  /\ ignoreExtensions = <<>>
  /\ filterPc = "unused"
  /\ filterIdx = 0
  /\ processedFiles = <<>>
  /\ readCalls = <<>>
  /\ isProcessing = FALSE
  /\ progress = 0
  /\ totalFilesToProcess = 0
  /\ stats = NoStats

\* Line 313: an option of the bundle selector is chosen; the component
\* renders again, filteredFiles is evaluated and the chunks callback is due.
SelectBundle ==
  /\ pc = "done"
  /\ \E id \in {"all"} \cup {bundles[i].id : i \in 1..Len(bundles)} :
       /\ id # activeBundleId
       /\ activeBundleId' = id
       /\ files' = filteredFiles(appFiles, bundles, id)
  /\ pc' = "start"
  /\ UNCHANGED <<modal, format, enableSplitting, maxTokens, matcher, filter, appFiles,
                 bundles, fileIdx, remainingContent, partCounter, fileParts,
                 currentChunkFiles, currentChunkSize, resultChunks, heap,
                 chunks, runs, prevChunks>>

NextBundle ==
  \/ SelectBundle
  \/ Start

SpecBundle == InitBundle /\ [][NextBundle]_vars

\* ------------------------------------------------------------------------
\* The settings modal: bundles are edited in a copy and applied
\* ------------------------------------------------------------------------

\* Edits made in the modal in one run.
MaxEdits == 2

\* 'src/**/*', the pattern of a bundle made by handleAddBundle
GlobSrcAll == <<"s", "r", "c", "/", "*", "*", "/", "*">>

\* The bundles App holds when the modal is mounted.
SettingsBundles == SubSeq(ViewerBundles, 1, 2)

\* The file sets of the viewer in these runs.
SettingsFileLists ==
  {l \in ViewerFileLists :
     \/ Len(l) = Len(ViewerFilePool)
     \/ {l[i].path : i \in 1..Len(l)} = {PathSrcAppTs, PathViteConfig}}

\* What the user types into a name field and into a pattern field.
EditNames == {"Renamed"}

EditPatterns == {GlobSrcStarTs}

\* crypto.randomUUID(): a new id at every call.
UuidPool == <<"uuid-1", "uuid-2", "uuid-3", "uuid-4">>

\* The value of an array of bundle references: what a reader of the array
\* sees through the objects and their patterns arrays.
BundleValue(refs, objs, arrs) ==
  [i \in 1..Len(refs) |->
     [id       |-> objs[refs[i]].id,
      name     |-> objs[refs[i]].name,
      patterns |-> arrs[objs[refs[i]].patterns]]]

\* array.splice(index, 1)
RemoveAt(s, index) == SubSeq(s, 1, index - 1) \o SubSeq(s, index + 1, Len(s))

\* App.tsx lines 44-60 and SettingsModal.tsx line 25: App holds its bundle
\* objects, and the modal, mounted once with App, holds
\* JSON.parse(JSON.stringify(bundles)): new objects with new patterns arrays.
InitSettings ==
  /\ appFiles \in SettingsFileLists
  /\ bundles = SettingsBundles
  /\ LET n == Len(SettingsBundles)
     IN  /\ bundleObjs = [i \in 1..(2 * n) |->
                            [id       |-> SettingsBundles[((i - 1) % n) + 1].id,
                             name     |-> SettingsBundles[((i - 1) % n) + 1].name,
                             patterns |-> i]]
         /\ patternArrays = [i \in 1..(2 * n) |->
                               SettingsBundles[((i - 1) % n) + 1].patterns]
         /\ bundlesRef = [i \in 1..n |-> i]
         /\ editingBundles = [i \in 1..n |-> n + i]
  /\ edits = 0
  /\ activeBundleId = "all"
  /\ files = appFiles
  /\ format = "xml"
  /\ enableSplitting = FALSE
  /\ maxTokens = 25000
  /\ pc = "start"
  /\ fileIdx = 0
  /\ remainingContent = <<>>
  /\ partCounter = 0
  /\ fileParts = <<>>
  /\ currentChunkFiles = <<>>
  /\ currentChunkSize = 0
  /\ resultChunks = <<>>
  /\ heap = <<>>
  /\ chunks = <<>>
  /\ runs = 1
  /\ prevChunks = <<>>
  /\ filePath = <<>>
  /\ patterns = <<>>
  /\ matchPc = "idle"
  /\ matchResult = FALSE
  /\ rawFileList = <<>>
  /\ ignorePatterns = <<>>
  /\ ignoreExtensions = <<>>
  /\ filterPc = "unused"
  /\ filterIdx = 0
  /\ processedFiles = <<>>
  /\ readCalls = <<>>
  /\ isProcessing = FALSE
  /\ progress = 0
  /\ totalFilesToProcess = 0
  /\ stats = NoStats

\* What every handler of the modal has in common: it runs between two
\* renders of the viewer, sets editingBundles to newEditing, and leaves App's
\* state alone; what App's array shows is read through the objects as they
\* are after the handler.
ModalEdit(newEditing, newObjs, newArrs) ==
  /\ pc = "done"
  /\ edits < MaxEdits
  /\ edits' = edits + 1
  /\ editingBundles' = newEditing
  /\ bundleObjs' = newObjs
  /\ patternArrays' = newArrs
  /\ bundles' = BundleValue(bundlesRef, newObjs, newArrs)
  /\ UNCHANGED <<inputs, matcher, filter, packer, appFiles, activeBundleId,
                 bundlesRef>>

\* Lines 45-52: handleAddBundle appends a new object to a copy of the array.
HandleAddBundle ==
  ModalEdit(Append(editingBundles, Len(bundleObjs) + 1),
            Append(bundleObjs, [id       |-> UuidPool[edits + 1],
                                name     |-> "New Bundle",
                                patterns |-> Len(patternArrays) + 1]),
            Append(patternArrays, <<GlobSrcAll>>))

\* Lines 54-58: updateBundle(index, 'name', value) puts a new object,
\* { ...updated[index], name: value }, into a copy of the array; the new
\* object has the patterns array of the old one.
UpdateBundle ==
  \E index \in 1..Len(editingBundles), value \in EditNames :
    ModalEdit([editingBundles EXCEPT ![index] = Len(bundleObjs) + 1],
              Append(bundleObjs,
                     [bundleObjs[editingBundles[index]] EXCEPT !.name = value]),
              patternArrays)

\* Lines 60-66: updateBundlePattern copies the array of bundles and the
\* patterns array, and assigns the new patterns array to the object at
\* bundleIndex, which the copied array shares with the array it was copied from.
UpdateBundlePattern ==
  \E bundleIndex \in 1..Len(editingBundles), value \in EditPatterns :
    LET obj == editingBundles[bundleIndex]
        old == patternArrays[bundleObjs[obj].patterns]
    IN  \E patternIndex \in 1..Len(old) :
          ModalEdit(editingBundles,
                    [bundleObjs EXCEPT ![obj].patterns = Len(patternArrays) + 1],
                    Append(patternArrays, [old EXCEPT ![patternIndex] = value]))

\* Lines 68-72: addPatternToBundle pushes '' onto the patterns array of the
\* object at bundleIndex.
AddPatternToBundle ==
  \E bundleIndex \in 1..Len(editingBundles) :
    LET arr == bundleObjs[editingBundles[bundleIndex]].patterns
    IN  ModalEdit(editingBundles, bundleObjs,
                  [patternArrays EXCEPT ![arr] = Append(@, <<>>)])

\* Lines 74-78: removePatternFromBundle splices the patterns array of the
\* object at bundleIndex.
RemovePatternFromBundle ==
  \E bundleIndex \in 1..Len(editingBundles) :
    LET arr == bundleObjs[editingBundles[bundleIndex]].patterns
    IN  \E patternIndex \in 1..Len(patternArrays[arr]) :
          ModalEdit(editingBundles, bundleObjs,
                    [patternArrays EXCEPT ![arr] = RemoveAt(@, patternIndex)])

\* Lines 80-84: removeBundle splices a copy of the array.
RemoveBundle ==
  \E index \in 1..Len(editingBundles) :
    ModalEdit(RemoveAt(editingBundles, index), bundleObjs, patternArrays)

\* Lines 86-89: saveBundles hands the array of the modal to App
\* (setBundles(editingBundles)); App renders the viewer with it, and
\* filteredFiles and the chunks are evaluated for the new array.
SaveBundles ==
  /\ pc = "done"
  /\ bundlesRef' = editingBundles
  /\ bundles' = BundleValue(editingBundles, bundleObjs, patternArrays)
  /\ files' = filteredFiles(appFiles, bundles', activeBundleId)
  /\ pc' = "start"
  /\ UNCHANGED <<format, enableSplitting, maxTokens, matcher, filter, appFiles,
                 activeBundleId, bundleObjs, patternArrays, editingBundles,
                 edits, fileIdx, remainingContent, partCounter, fileParts,
                 currentChunkFiles, currentChunkSize, resultChunks, heap,
                 chunks, runs, prevChunks>>

NextSettings ==
  \/ HandleAddBundle
  \/ UpdateBundle
  \/ UpdateBundlePattern
  \/ AddPatternToBundle
  \/ RemovePatternFromBundle
  \/ RemoveBundle
  \/ SaveBundles
  \/ SelectBundle
  \/ Start

\* The viewer without splitting, the bundle selector and the settings modal.
SpecSettings == InitSettings /\ [][NextSettings]_vars

\* ------------------------------------------------------------------------
\* A session: every control of the viewer, and the modal
\* ------------------------------------------------------------------------

\* The budgets typed in a session: the default and one for which the files
\* of the viewer do not fit one chunk.
SessionBudgets == {76, 25000}

\* What the controls of the viewer have in common: a state of the viewer is
\* set between two renders, and the chunks callback, which depends on it, is
\* due; filteredFiles does not depend on it and keeps its value.
ViewerControl ==
  /\ pc = "done"
  /\ pc' = "start"
  /\ UNCHANGED <<modal, files, matcher, filter, viewer, fileIdx,
                 remainingContent, partCounter, fileParts, currentChunkFiles,
                 currentChunkSize, resultChunks, heap, chunks, runs, prevChunks>>

\* Lines 345-357: setFormat(OutputFormat.XML | MARKDOWN | JSON)
SetFormat ==
  /\ \E value \in Formats :
       /\ value # format
       /\ format' = value
  /\ ViewerControl
  /\ UNCHANGED <<enableSplitting, maxTokens>>

\* Line 367: setEnableSplitting(!enableSplitting)
ToggleSplitting ==
  /\ enableSplitting' = ~enableSplitting
  /\ ViewerControl
  /\ UNCHANGED <<format, maxTokens>>

\* Lines 378-384: setMaxTokens(Number(e.target.value))
SetMaxTokens ==
  /\ \E value \in SessionBudgets :
       /\ value # maxTokens
       /\ maxTokens' = value
  /\ ViewerControl
  /\ UNCHANGED <<format, enableSplitting>>

NextSession ==
  \/ SetFormat
  \/ ToggleSplitting
  \/ SetMaxTokens
  \/ SelectBundle
  \/ UpdateBundlePattern
  \/ AddPatternToBundle
  \/ RemovePatternFromBundle
  \/ RemoveBundle
  \/ SaveBundles
  \/ Start
  \/ NextFile
  \/ ThresholdFlush
  \/ EmitPart
  \/ FileDone
  \/ Finish

\* The viewer mounted on a file set, with its controls, the bundle selector
\* and the modal used in any order.
SpecSession == InitSettings /\ [][NextSession]_vars

\* ------------------------------------------------------------------------
\* What the callback returned
\* ------------------------------------------------------------------------

\* The parts of all returned chunks, in chunk order and in order inside a chunk.
OutputParts == Flatten([i \in 1..Len(chunks) |-> chunks[i].files])

\* The references held by the chunks closed so far, in the same order.
FlushedRefs == Flatten([i \in 1..Len(resultChunks) |-> resultChunks[i].files])

\* The parts emitted for one path, in emission order.
PartsOf(path) == SelectSeq(OutputParts, LAMBDA p : p.originalPath = path)

\* The contents of a sequence of parts, concatenated.
Concat(parts) == Flatten([k \in 1..Len(parts) |-> parts[k].content])

\* The parts reordered by partIndex (defined when the indices are 1..n).
ByPartIndex(parts) ==
  [k \in 1..Len(parts) |->
     parts[CHOOSE j \in 1..Len(parts) : parts[j].partIndex = k]]

HasIndices(parts) ==
  \A k \in 1..Len(parts) : \E j \in 1..Len(parts) : parts[j].partIndex = k

\* 100 + sum over the parts of (content length + 200)
RECURSIVE AccountedSize(_)
AccountedSize(parts) ==
  IF parts = <<>> THEN CHUNK_OVERHEAD
  ELSE AccountedSize(Tail(parts)) + Len(Head(parts).content) + PER_FILE_OVERHEAD

Paths(parts) == {parts[k].originalPath : k \in 1..Len(parts)}

\* The position of a path in the input sequence.
FileIndex(path) == CHOOSE i \in 1..Len(files) : files[i].path = path

\* ------------------------------------------------------------------------
\* Claims
\* ------------------------------------------------------------------------

\* C1 (Reconstruction): when the callback has returned, for every input file the
\* contents of its emitted parts, concatenated in partIndex order, equal the
\* file's content; and while a file is being consumed, the parts emitted for it
\* so far followed by remainingContent equal the file's content.
C1_Reconstruction ==
  /\ pc = "done" =>
       \A i \in 1..Len(files) :
         LET parts == PartsOf(files[i].path)
         IN  /\ HasIndices(parts)
             /\ Concat(ByPartIndex(parts)) = files[i].content
  /\ pc = "while" =>
       Concat(Deref(fileParts)) \o remainingContent = files[fileIdx].content

\* C1 witness: a file was split into at least three parts, one of them cut at
\* a newline, and the callback returned.
C1_Witness ==
  /\ pc = "done"
  /\ enableSplitting
  /\ \E i \in 1..Len(files) :
       LET parts == PartsOf(files[i].path)
       IN  /\ Len(parts) >= 3
           /\ \E k \in 1..Len(parts) - 1 :
                parts[k].content[Len(parts[k].content)] = NL

\* C2 (Termination, as stated): every step of the packing loop that emits a
\* part removes at least one character from remainingContent.
C2_EmitConsumes ==
  [][(pc = "while" /\ Len(heap') > Len(heap))
       => Len(remainingContent') < Len(remainingContent)]_vars

\* C3 (Coverage, as stated): the paths appearing across the returned chunks are
\* exactly the paths of the input files, and a path appears in more than one
\* chunk only as distinct split parts.
C3_Coverage ==
  pc = "done" =>
    /\ Paths(OutputParts) = {files[i].path : i \in 1..Len(files)}
    /\ \A j, k \in 1..Len(OutputParts) :
         (j # k /\ OutputParts[j].originalPath = OutputParts[k].originalPath)
           => /\ OutputParts[j].isSplit /\ OutputParts[k].isSplit
              /\ OutputParts[j].partIndex # OutputParts[k].partIndex

\* C4 (Chunk size bound, as stated): with splitting enabled every returned
\* chunk satisfies 100 + sum (content length + 200) <= maxTokens * 4.
C4_ChunkSizeBound ==
  (pc = "done" /\ enableSplitting) =>
    \A i \in 1..Len(chunks) : AccountedSize(chunks[i].files) <= limitChars

\* C5 (Non-splitting invariance, as stated): with splitting disabled exactly
\* one chunk is returned whatever the budget, labelled "Full Context", holding
\* every input file in input order as one unsplit part.
C5_OneChunkAlways ==
  (pc = "done" /\ ~enableSplitting) =>
    /\ Len(chunks) = 1
    /\ chunks[1].label = <<Lit("Full Context")>>
    /\ Len(chunks[1].files) = Len(files)
    /\ \A i \in 1..Len(files) :
         LET p == chunks[1].files[i]
         IN  /\ p.originalPath = files[i].path
             /\ p.content = files[i].content
             /\ ~p.isSplit
             /\ p.partIndex = 1
             /\ p.totalParts = 1

\* C5 (amended): with splitting disabled and a non-empty file set exactly one
\* chunk is returned whatever the budget, labelled "Full Context", holding
\* every input file in input order as one unsplit part.
C5_OneChunkNonEmpty ==
  (pc = "done" /\ ~enableSplitting /\ Len(files) > 0) =>
    /\ Len(chunks) = 1
    /\ chunks[1].label = <<Lit("Full Context")>>
    /\ Len(chunks[1].files) = Len(files)
    /\ \A i \in 1..Len(files) :
         LET p == chunks[1].files[i]
         IN  /\ p.originalPath = files[i].path
             /\ p.content = files[i].content
             /\ ~p.isSplit
             /\ p.partIndex = 1
             /\ p.totalParts = 1

\* C5 witness: splitting is disabled, the budget is below the overhead, two
\* files of which one is far larger than the budget, and the callback returned.
C5_Witness ==
  /\ pc = "done"
  /\ ~enableSplitting
  /\ maxTokens = 0
  /\ Len(files) = 2
  /\ \E i \in 1..Len(files) : Len(files[i].content) > 500

\* C6 (Empty file set): an empty file set returns zero chunks in either mode,
\* for every budget and format; and no chunk, closed or returned, has an empty
\* part list or an empty rendering.
C6_EmptyFileSet ==
  /\ (pc = "done" /\ Len(files) = 0) => chunks = <<>>
  /\ \A i \in 1..Len(resultChunks) : Len(resultChunks[i].files) > 0
  /\ \A i \in 1..Len(chunks) :
       Len(chunks[i].files) > 0 /\ chunks[i].content # <<>>

\* C6 witness: the callback returned for an empty file set with splitting
\* enabled.
C6_Witness ==
  /\ pc = "done"
  /\ Len(files) = 0
  /\ enableSplitting
  /\ chunks = <<>>

C8_SplitMetadata ==
  pc = "done" =>
    \A i \in 1..Len(files) :
      LET parts == PartsOf(files[i].path)
          n     == Len(parts)
      IN  \A k \in 1..n :
            /\ parts[k].partIndex = k
            /\ parts[k].totalParts = n
            /\ parts[k].isSplit = (n > 1)

\* C8 witness: the returned chunks hold a file split into three parts next to
\* a file emitted as one part.
C8_Witness ==
  /\ pc = "done"
  /\ enableSplitting
  /\ \E i, j \in 1..Len(files) :
       /\ Len(PartsOf(files[i].path)) >= 3
       /\ Len(PartsOf(files[j].path)) = 1

\* C9 (One chunk per part, input order): every part object created by the loop
\* is held by exactly one closed chunk once the callback has returned, and the
\* returned parts, read chunk by chunk, are ordered by the position of their
\* file in the input and, inside one file, by strictly increasing partIndex.
C9_OrderAndOwnership ==
  /\ (pc = "done" /\ enableSplitting /\ Len(files) > 0) =>
       \A r \in 1..Len(heap) :
         Cardinality({j \in 1..Len(FlushedRefs) : FlushedRefs[j] = r}) = 1
  /\ pc = "done" =>
       \A j, k \in 1..Len(OutputParts) :
         j < k =>
           \/ FileIndex(OutputParts[j].originalPath)
                < FileIndex(OutputParts[k].originalPath)
           \/ /\ OutputParts[j].originalPath = OutputParts[k].originalPath
              /\ OutputParts[j].partIndex < OutputParts[k].partIndex

\* C9 witness: the callback returned at least three chunks, one of them
\* holding parts of two different files.
C9_Witness ==
  /\ pc = "done"
  /\ Len(chunks) >= 3
  /\ \E i \in 1..Len(chunks) : Cardinality(Paths(chunks[i].files)) = 2

\* The number of separators in a path.
Depth(path) == Cardinality({i \in 1..Len(path) : path[i] = "/"})

\* C10 (`**`, as stated): the pattern src/**/*.ts matches every path that
\* starts with src/, ends with .ts and has one or more intermediate
\* directories, at any depth.
C10_DoubleStarAnyDepth ==
  (/\ matchPc = "return"
   /\ patterns = <<GlobSrcAnyTs>>
   /\ StartsWith(NormalizePath(filePath), <<"s", "r", "c", "/">>)
   /\ EndsWith(NormalizePath(filePath), <<".", "t", "s">>)
   /\ Depth(NormalizePath(filePath)) >= 2)
    => matchResult

\* A pattern all of whose wildcards are single stars.
SingleStarOnly(pattern) ==
  /\ Includes(pattern, <<"*">>)
  /\ ~Includes(pattern, <<"*", "*">>)
  /\ ~Includes(pattern, <<"?">>)

\* What a pattern of literal characters and single stars accepts: the whole
\* of str, a star standing for a run of characters other than the separator
\* and every other character for itself in either case.
RECURSIVE StarAccepts(_, _)
StarAccepts(pattern, str) ==
  IF pattern = <<>> THEN str = <<>>
  ELSE IF Head(pattern) = "*"
  THEN \E n \in 0..Len(str) :
         /\ \A j \in 1..n : str[j] # "/"
         /\ StarAccepts(Tail(pattern), SubSeq(str, n + 1, Len(str)))
  ELSE /\ str # <<>>
       /\ FoldCase(str[1]) = FoldCase(Head(pattern))
       /\ StarAccepts(Tail(pattern), Tail(str))

\* C11 (single star, anchors, case): for a one-pattern list whose wildcards
\* are single stars, the matcher returns true exactly when the whole
\* normalized path is accepted with each star standing for a run without a
\* separator, compared without regard to case; src/**/*.ts accepts
\* src/utils/helper.ts in either case and rejects src/utils/helper.js, and
\* *.config.* accepts vite.config.ts and rejects src/app.ts.
C11_SingleStarAnchored ==
  matchPc = "return" =>
    /\ (Len(patterns) = 1 /\ SingleStarOnly(patterns[1]))
         => (matchResult <=> StarAccepts(patterns[1], NormalizePath(filePath)))
    /\ patterns = <<GlobSrcAnyTs>>
         => /\ filePath \in {PathSrcHelperTs, PathUpperTs} => matchResult
            /\ filePath = PathSrcHelperJs => ~matchResult
    /\ patterns = <<GlobConfig>>
         => /\ filePath = PathViteConfig => matchResult
            /\ filePath = PathSrcAppTs => ~matchResult

\* A path in upper case was accepted by a single-star pattern in lower case.
C11_Witness ==
  /\ matchPc = "return"
  /\ patterns = <<GlobConfig>>
  /\ filePath = PathUpperConfig
  /\ matchResult

\* What a pattern of literal characters and question marks accepts: the whole
\* of str, a question mark standing for exactly one character.
RECURSIVE QuestionAccepts(_, _)
QuestionAccepts(pattern, str) ==
  IF pattern = <<>> THEN str = <<>>
  ELSE /\ str # <<>>
       /\ \/ Head(pattern) = "?"
          \/ FoldCase(str[1]) = FoldCase(Head(pattern))
       /\ QuestionAccepts(Tail(pattern), Tail(str))

\* C12 (`?`, as stated): in every pattern, also one with neither a separator
\* nor a star, a question mark stands for exactly one character, so a path
\* that the pattern accepts with each question mark read as one character is
\* matched.
C12_QuestionIsWildcard ==
  (/\ matchPc = "return"
   /\ Len(patterns) = 1
   /\ Includes(patterns[1], <<"?">>)
   /\ ~Includes(patterns[1], <<"*">>)
   /\ QuestionAccepts(patterns[1], NormalizePath(filePath)))
    => matchResult

\* normalizedPath.split('/'): the segments of a path, as a set.
Segments(path) ==
  {SubSeq(path, b[1], b[2]) :
     b \in {c \in (1..(Len(path) + 1)) \X (0..Len(path)) :
              /\ c[1] <= c[2] + 1
              /\ \A j \in c[1]..c[2] : path[j] # "/"
              /\ (c[1] = 1 \/ path[c[1] - 1] = "/")
              /\ (c[2] = Len(path) \/ path[c[2] + 1] = "/")}}

\* C13 (segment shorthand): a one-pattern list whose pattern has neither a
\* separator nor a star matches exactly the paths one of whose segments is
\* the pattern; node_modules matches src/node_modules/x.ts and not a/b/c.ts,
\* and a pattern that is only part of a segment does not match.
C13_SegmentShorthand ==
  (/\ matchPc = "return"
   /\ Len(patterns) = 1
   /\ ~Includes(patterns[1], <<"/">>)
   /\ ~Includes(patterns[1], <<"*">>))
    => /\ matchResult <=> patterns[1] \in Segments(NormalizePath(filePath))
       /\ patterns[1] = ShortNodeModules
            => /\ filePath = PathNodeModules => matchResult
               /\ filePath \in {PathABC, PathMyNodeModules} => ~matchResult

\* The shorthand pattern matched a directory in the middle of a path.
C13_Witness ==
  /\ matchPc = "return"
  /\ patterns = <<ShortNodeModules>>
  /\ filePath = PathNodeModules
  /\ matchResult

\* [...patterns].reverse()
Reverse(s) == [i \in 1..Len(s) |-> s[Len(s) + 1 - i]]

InOutput(file) ==
  \E j \in 1..Len(appFiles) : appFiles[j].path = RawPath(file)

\* The three conditions on a raw file that need no read: no ignore pattern
\* matches its path, its extension in lower case behind a dot is not denied,
\* and it is not larger than 500 KiB.
PassesCheapChecks(file) ==
  /\ ~matchesAnyPattern(RawPath(file), ignorePatterns)
  /\ \A e \in 1..Len(ignoreExtensions) :
       ignoreExtensions[e] # <<".">> \o ToLowerCase(SplitDotPop(file.name))
  /\ file.size <= 500 * 1024

\* C15 (filter inclusion): when processFiles has returned, a readable raw
\* file is in the output exactly when it passes the pattern, extension and
\* size checks and its content has no NUL; a file of exactly 512000 bytes
\* passes the size check and one of 512001 bytes does not; and the files that
\* were read are exactly those that pass the first three checks.
C15_FilterInclusion ==
  filterPc = "done" =>
    \A k \in 1..Len(rawFileList) :
      LET file == rawFileList[k]
      IN  /\ file.readable =>
                (InOutput(file) <=>
                   /\ PassesCheapChecks(file)
                   /\ \A c \in 1..Len(file.content) : file.content[c] # 0)
          /\ (\E r \in 1..Len(readCalls) : readCalls[r] = k - 1)
                <=> PassesCheapChecks(file)
          /\ file.size = 512001 => ~InOutput(file)
          /\ (file = RawAtLimit /\ ignorePatterns = <<>>) => InOutput(file)

\* A file at the ceiling was kept, one over it dropped, and a file in an
\* ignored directory was dropped without being read.
C15_Witness ==
  /\ filterPc = "done"
  /\ rawFileList = <<RawIgnoredDir, RawTooLarge, RawAtLimit>>
  /\ ignorePatterns = <<ShortNodeModules>>
  /\ InOutput(RawAtLimit)
  /\ ~InOutput(RawTooLarge)
  /\ readCalls = <<2>>

\* export const processFiles = async (fileList, ...) => ...: the value the
\* returned promise resolves to, for the ignore lists in force.
processFiles(list) ==
  LET kept == SelectSeq(list, LAMBDA file :
                /\ ~RejectedBeforeRead(file)
                /\ file.readable
                /\ ~\E k \in 1..Len(ReadResult(file)) : ReadResult(file)[k] = NUL)
  IN  SortByPath([i \in 1..Len(kept) |->
                    ProcessedEntry(kept[i], ReadResult(kept[i]))])

\* The files of a list whose read succeeds.
Readable(list) == SelectSeq(list, LAMBDA file : file.readable)

\* C16 (unreadable file isolation): when a read has failed, processFiles
\* still resolves and App stores its result; no file whose read fails is in
\* it, and it is the list processFiles gives for the same selection without
\* the files that cannot be read.
C16_UnreadableIsolation ==
  filterPc = "done" =>
    /\ ~isProcessing
    /\ stats.totalFiles = Len(rawFileList)
    /\ stats.processedFiles = Len(appFiles)
    /\ \A k \in 1..Len(rawFileList) :
         ~rawFileList[k].readable => ~InOutput(rawFileList[k])
    /\ appFiles = processFiles(Readable(rawFileList))

\* The read of the first file failed and the file after it was kept.
C16_Witness ==
  /\ filterPc = "done"
  /\ Len(rawFileList) >= 2
  /\ rawFileList[1] = RawUnreadable
  /\ readCalls[1] = 0
  /\ InOutput(rawFileList[2])

\* The same files in every order.
Reorderings(list) ==
  {[i \in 1..Len(list) |-> list[q[i]]] :
     q \in {r \in [1..Len(list) -> 1..Len(list)] :
              \A a, b \in 1..Len(list) : a # b => r[a] # r[b]}}

C20_ExtensionLowercaseNoDot ==
  filterPc = "done" =>
    \A i \in 1..Len(appFiles) :
      /\ appFiles[i].extension = ToLowerCase(appFiles[i].extension)
      /\ \A k \in 1..Len(appFiles[i].extension) : appFiles[i].extension[k] # "."

\* ------------------------------------------------------------------------
\* What the bundle selector shows
\* ------------------------------------------------------------------------

\* The position of an entry in the list App holds.
AppIndex(f) == CHOOSE i \in 1..Len(appFiles) : appFiles[i].path = f.path

\* The bundle that is selected (one exists with the selected id).
ActiveBundle == bundles[CHOOSE i \in 1..Len(bundles) : bundles[i].id = activeBundleId]

\* C18 (bundle selection): with "all" selected the packer gets the files of
\* App unchanged; with a bundle selected it gets exactly the files of App
\* whose path one of the bundle's patterns matches, in the order App has
\* them (*.config.* over src/app.ts and vite.config.ts leaves vite.config.ts
\* alone); and when no file is left, the chunk list is empty.
C18_BundleSelection ==
  /\ activeBundleId = "all" => files = appFiles
  /\ activeBundleId # "all" =>
       /\ \A i \in 1..Len(files) :
            \E j \in 1..Len(appFiles) : appFiles[j] = files[i]
       /\ \A i, j \in 1..Len(files) :
            i < j => AppIndex(files[i]) < AppIndex(files[j])
       /\ \A j \in 1..Len(appFiles) :
            (\E i \in 1..Len(files) : files[i] = appFiles[j])
              <=> \E q \in 1..Len(ActiveBundle.patterns) :
                    matchesAnyPattern(appFiles[j].path, <<ActiveBundle.patterns[q]>>)
  /\ (/\ activeBundleId = "config"
      /\ [j \in 1..Len(appFiles) |-> appFiles[j].path] = <<PathSrcAppTs, PathViteConfig>>)
       => [i \in 1..Len(files) |-> files[i].path] = <<PathViteConfig>>
  /\ (pc = "done" /\ files = <<>>) => chunks = <<>>

\* The bundle of *.config.* was selected over src/app.ts and vite.config.ts
\* and the chunk was made of vite.config.ts.
C18_Witness ==
  /\ pc = "done"
  /\ activeBundleId = "config"
  /\ [j \in 1..Len(appFiles) |-> appFiles[j].path] = <<PathSrcAppTs, PathViteConfig>>
  /\ Len(chunks) = 1
  /\ [i \in 1..Len(chunks[1].files) |-> chunks[1].files[i].originalPath]
       = <<PathViteConfig>>

\* ------------------------------------------------------------------------
\* What a reader gets back from a rendered chunk
\* ------------------------------------------------------------------------

\* s.indexOf(p) + 1: where p first occurs in s, 0 when it does not.
IndexOf(s, p) ==
  LET at == {i \in 1..(Len(s) - Len(p) + 1) : SubSeq(s, i, i + Len(p) - 1) = p}
  IN  IF at = {} THEN 0 ELSE CHOOSE i \in at : \A j \in at : i <= j

\* The character data of <![CDATA[ c ]]>: a CDATA section ends at the first
\* ]]> after its start.
XmlReadBack(c) ==
  IF IndexOf(c, <<93, 93, 62>>) = 0 THEN c
  ELSE SubSeq(c, 1, IndexOf(c, <<93, 93, 62>>) - 1)

\* The text of a fenced code block holding c: the block ends at the first
\* line made of three backquotes.
MarkdownReadBack(c) ==
  LET fences == {i \in 1..(Len(c) - 2) :
                   /\ SubSeq(c, i, i + 2) = <<96, 96, 96>>
                   /\ (i = 1 \/ c[i - 1] = NL)
                   /\ (i + 2 = Len(c) \/ c[i + 3] = NL)}
      first  == CHOOSE i \in fences : \A j \in fences : i <= j
  IN  IF fences = {} THEN c ELSE SubSeq(c, 1, first - 2)

\* The backslash at i starts an escape: an even number of backslashes stand
\* right before it.
EscapeStart(e, i) ==
  /\ e[i] = 92
  /\ LET before == {j \in 1..(i - 1) : e[j] # 92}
         last   == IF before = {} THEN 0
                   ELSE CHOOSE j \in before : \A h \in before : h <= j
     IN  (i - 1 - last) % 2 = 0

\* JSON.parse of the string literal with the characters e between its
\* quotes: the literal ends at the first quote that is not escaped.
JsonReadBack(e) ==
  LET escaped(i) == i > 1 /\ EscapeStart(e, i - 1)
      quotes == {i \in 1..Len(e) : e[i] = 34 /\ ~escaped(i)}
      end    == IF quotes = {} THEN Len(e) + 1
                ELSE CHOOSE i \in quotes : \A j \in quotes : i <= j
      marked == [i \in 1..Len(e) |->
                   [keep |-> i < end /\ ~EscapeStart(e, i),
                    ch   |-> IF escaped(i) /\ e[i] = 110 THEN NL ELSE e[i]]]
      kept   == SelectSeq(marked, LAMBDA x : x.keep)
  IN  [i \in 1..Len(kept) |-> kept[i].ch]

\* Where the pieces of a file entry and of the chunk's own metadata stand in
\* each output format: the literal an entry starts with, the literal that
\* announces its split numbers and its distance from the entry's start, the
\* distance of the content without and with split numbers, and the literal
\* that announces the chunk's part numbers with its position.
Layout(fmt) ==
  IF fmt = "xml"
  THEN [start |-> Lit("  <file path=\""), split |-> Lit(" split_part=\""),
        splitAt |-> 3, contentAt |-> 4, contentAtSplit |-> 9,
        meta |-> Lit(" part=\""), metaAt |-> 2]
  ELSE IF fmt = "markdown"
  THEN [start |-> Lit("### File: "), split |-> Lit(" (Part "),
        splitAt |-> 2, contentAt |-> 6, contentAtSplit |-> 11,
        meta |-> Lit("# Project Context - Part "), metaAt |-> 1]
  ELSE [start |-> Lit("    {\n      \"path\": \""),
        split |-> Lit(",\n      \"split\": {\n        \"part\": "),
        splitAt |-> 5, contentAt |-> 3, contentAtSplit |-> 3,
        meta |-> Lit("  \"meta\": {\n    \"part\": "), metaAt |-> 2]

\* The content between the delimiters of a format, as a reader of that
\* format takes it.
ReadBack(fmt, c) ==
  IF fmt = "xml" THEN XmlReadBack(c)
  ELSE IF fmt = "markdown" THEN MarkdownReadBack(c)
  ELSE JsonReadBack(c)

\* The file entries read from a rendered chunk, in order: path, content and
\* split numbers (<<>> when the entry has none).
EntriesOf(fmt, rendered) ==
  LET lay    == Layout(fmt)
      starts == SelectSeq([i \in 1..Len(rendered) |-> i],
                          LAMBDA i : rendered[i] = lay.start)
  IN  [k \in 1..Len(starts) |->
         LET i        == starts[k]
             hasSplit == rendered[i + lay.splitAt] = lay.split
         IN  [path    |-> rendered[i + 1].s,
              content |-> ReadBack(fmt,
                            rendered[i + (IF hasSplit THEN lay.contentAtSplit
                                          ELSE lay.contentAt)].c),
              split   |-> IF hasSplit
                          THEN <<rendered[i + lay.splitAt + 1].n,
                                 rendered[i + lay.splitAt + 3].n>>
                          ELSE <<>>]]

\* The part numbers read from the head of a rendered chunk, <<>> when it has
\* none.
MetaOf(fmt, rendered) ==
  LET lay == Layout(fmt)
  IN  IF Len(rendered) >= lay.metaAt + 3 /\ rendered[lay.metaAt] = lay.meta
      THEN <<rendered[lay.metaAt + 1].n, rendered[lay.metaAt + 3].n>>
      ELSE <<>>

C21_FreshChunkContinuation ==
  enableSplitting =>
    /\ \A ci \in 1..Len(resultChunks) :
         \A k \in 1..Len(resultChunks[ci].files) :
           heap[resultChunks[ci].files[k]].partIndex > 1 => k = 1
    /\ pc = "done" =>
         \A ci \in 1..Len(chunks) :
           LET parts == chunks[ci].files
           IN  /\ \A k \in 1..Len(parts) :
                    /\ parts[k].partIndex > 1 => k = 1
                    /\ parts[k].partIndex < parts[k].totalParts => k = Len(parts)
               /\ \A j, k \in 1..Len(parts) :
                    j # k => parts[j].originalPath # parts[k].originalPath

\* The callback returned a chunk that starts with the last part of a split
\* file and goes on with another file, after a part cut at a newline that
\* left more than 500 characters of its chunk unused.
C21_Witness ==
  /\ pc = "done"
  /\ enableSplitting
  /\ \E ci \in 2..Len(chunks) :
       /\ Len(chunks[ci].files) >= 2
       /\ chunks[ci].files[1].partIndex > 1
       /\ limitChars - CHUNK_OVERHEAD - 2 * PER_FILE_OVERHEAD
            - Len(chunks[ci - 1].files[Len(chunks[ci - 1].files)].content)
            >= MIN_USABLE_SPACE

\* C22 (minimum-space flush): in the packing loop, when the current chunk
\* holds a part and fewer than 500 characters are usable
\* (maxTokens * 4 - currentChunkSize - 200), the next step appends no part:
\* it closes the current chunk as it is and starts an empty one whose size is
\* the chunk overhead of 100.
C22_MinimumSpaceFlush ==
  [][(/\ enableSplitting
      /\ pc = "while"
      /\ Len(remainingContent) > 0
      /\ Len(currentChunkFiles) > 0
      /\ maxTokens * 4 - currentChunkSize - 200 < 500)
       => /\ heap' = heap
          /\ Len(resultChunks') = Len(resultChunks) + 1
          /\ resultChunks'[Len(resultChunks')].files = currentChunkFiles
          /\ currentChunkFiles' = <<>>
          /\ currentChunkSize' = 100
          /\ remainingContent' = remainingContent]_vars

\* A chunk was closed for want of space before the first part of a file.
C22_Witness ==
  /\ enableSplitting
  /\ pc = "while"
  /\ Len(remainingContent) > 0
  /\ fileParts = <<>>
  /\ Len(resultChunks) > 0
  /\ currentChunkFiles = <<>>
  /\ currentChunkSize = 100

\* C23 (split point, as stated): when a part is cut from text longer than the
\* room maxChars of the current chunk, the part is the prefix of the text of
\* some length cut with cut <= maxChars, where cut is the position just after
\* the last newline found among the min(1000, 20% of maxChars) characters
\* before position maxChars, and maxChars when there is no such newline.
\* Stated for chunks with room for at least one character.
C23_SplitPoint ==
  [][(/\ enableSplitting
      /\ pc = "while"
      /\ Len(heap') > Len(heap)
      /\ limitChars - currentChunkSize - PER_FILE_OVERHEAD > 0
      /\ Len(remainingContent) > limitChars - currentChunkSize - PER_FILE_OVERHEAD)
       => LET maxChars == limitChars - currentChunkSize - PER_FILE_OVERHEAD
              part     == heap'[Len(heap')].content
              cut      == Len(part)
              window5  == Min(5 * SEARCH_WINDOW_MAX, maxChars)
              inWindow == {i \in 1..Len(remainingContent) :
                             /\ remainingContent[i] = NL
                             /\ i <= maxChars
                             /\ 5 * (i - 1) > 5 * maxChars - window5}
          IN  /\ cut <= maxChars
              /\ part = SubSeq(remainingContent, 1, cut)
              /\ cut = IF inWindow = {} THEN maxChars
                       ELSE CHOOSE i \in inWindow : \A j \in inWindow : j <= i]_vars

\* C24 (chunk labels): when the callback has returned with splitting enabled,
\* the i-th of the N returned chunks is labelled "Part i of N", also for
\* N = 1; a chunk labelled "Full Context" is the only chunk of a result
\* computed with splitting disabled.
C24_ChunkLabels ==
  pc = "done" =>
    /\ enableSplitting =>
         \A i \in 1..Len(chunks) :
           chunks[i].label = <<Lit("Part "), Num(i), Lit(" of "), Num(Len(chunks))>>
    /\ \A i \in 1..Len(chunks) :
         chunks[i].label = <<Lit("Full Context")>>
           => ~enableSplitting /\ Len(chunks) = 1

\* A packing that ends with three chunks or more.
C24_Witness ==
  /\ pc = "done"
  /\ enableSplitting
  /\ Len(chunks) >= 3
  /\ chunks[2].label = <<Lit("Part "), Num(2), Lit(" of "), Num(Len(chunks))>>

\* C26 (no empty chunk, no empty part, as stated): with splitting enabled, in
\* every state of the packing loop every closed chunk holds at least one part
\* and every part created so far has non-empty content.
C26_NoEmptyChunkOrPart ==
  enableSplitting =>
    /\ \A ci \in 1..Len(resultChunks) : Len(resultChunks[ci].files) >= 1
    /\ \A h \in 1..Len(heap) : Len(heap[h].content) > 0

\* C30 (no tiny leading fragments): with splitting enabled and a budget of at
\* least 200 tokens, a step that creates a part and leaves content of the file
\* behind creates a part longer than 80% of the room the chunk had for it
\* (maxTokens * 4 - currentChunkSize - 200), and longer than 400 characters.
C30_NoTinyLeadingFragment ==
  [][(/\ enableSplitting
      /\ maxTokens >= 200
      /\ pc = "while"
      /\ Len(heap') > Len(heap)
      /\ Len(remainingContent') > 0)
       => LET usable == maxTokens * 4 - currentChunkSize - 200
              part   == heap'[Len(heap')].content
          IN  /\ 5 * Len(part) > 4 * usable
              /\ Len(part) > 400]_vars

\* At the smallest budget of the claim a part was cut at a newline and content
\* of its file is left.
C30_Witness ==
  /\ enableSplitting
  /\ maxTokens = 200
  /\ pc = "while"
  /\ Len(remainingContent) > 0
  /\ Len(fileParts) >= 1
  /\ heap[fileParts[Len(fileParts)]].content[
       Len(heap[fileParts[Len(fileParts)]].content)] = NL

\* C27 (reset is final, as stated): once handleReset has run and no folder
\* has been selected since (totalFilesToProcess is 0: the reset sets it to 0
\* and a selection sets it to the number of selected files, at least one),
\* the file set is empty and the statistics are zero, also when a processFiles
\* call started before the reset completes afterwards.
C27_ResetIsFinal ==
  (totalFilesToProcess = 0) => (appFiles = <<>> /\ stats = NoStats)

\* C28 (bundle edits are isolated until applied, as stated): the bundles App
\* hands to the viewer change in a saveBundles step only; no edit made in the
\* modal changes them, before or after an earlier saveBundles.
C28_EditsIsolatedUntilApplied ==
  [][bundles' # bundles => SaveBundles]_vars

\* C29 (deleted active bundle): when a bundle is selected and no bundle of
\* App's list has its id any more, the packer gets the complete file set of
\* App, as with "all" selected, and the chunk made of it holds every file.
C29_MissingBundleSelectsAll ==
  (/\ activeBundleId # "all"
   /\ ~\E i \in 1..Len(bundles) : bundles[i].id = activeBundleId)
    => /\ files = appFiles
       /\ pc = "done" =>
            /\ Len(chunks) = 1
            /\ [i \in 1..Len(chunks[1].files) |-> chunks[1].files[i].originalPath]
                 = [j \in 1..Len(appFiles) |-> appFiles[j].path]

\* The bundle of *.config.* was selected, deleted in the modal and the
\* deletion applied; the chunk is made of all files.
C29_Witness ==
  /\ pc = "done"
  /\ activeBundleId = "config"
  /\ ~\E i \in 1..Len(bundles) : bundles[i].id = "config"
  /\ Len(chunks) = 1
  /\ Len(chunks[1].files) = Len(appFiles)
  /\ \E j \in 1..Len(appFiles) :
       ~matchesAnyPattern(appFiles[j].path, <<GlobConfig>>)

\* C25 (no stale derived state, as stated): when the viewer has rendered,
\* the packer's file set is the file set of App restricted to the patterns
\* the active bundle has now, and the chunks shown are made of it with the
\* format, splitting flag and budget set now.
C25_NoStaleDerivedState ==
  pc = "done" =>
    /\ files = filteredFiles(appFiles, bundles, activeBundleId)
    /\ ~enableSplitting =>
         chunks = IF files = <<>> THEN <<>>
                  ELSE << [id      |-> <<Lit("full")>>,
                           content |-> generateContent(format, allFilesAsChunkFiles, 0, 0),
                           files   |-> allFilesAsChunkFiles,
                           label   |-> <<Lit("Full Context")>>] >>
    /\ enableSplitting =>
         /\ Paths(OutputParts) = {files[i].path : i \in 1..Len(files)}
         /\ \A i \in 1..Len(chunks) :
              /\ chunks[i].content
                   = generateContent(format, chunks[i].files, i, Len(chunks))
              /\ Len(chunks[i].files) > 1
                   => AccountedSize(chunks[i].files) <= maxTokens * 4

====
